---- MODULE Spec2Model ----
(***************************************************************************)
(* VibeReaper: the MAP parser (MapLoader), the brush-to-mesh converter     *)
(* (BrushConverter) and the World that drives them.                        *)
(*                                                                         *)
(* Numbers.  The program computes in float.  The model computes exactly:   *)
(*   - a point is a record [nan, x, y, z, w] standing for (x/w, y/w, z/w), *)
(*     w > 0, in lowest terms; nan = TRUE is a vector of NaNs;             *)
(*   - a plane keeps an integer direction `normal` and `norm2`, the square *)
(*     of the length the code divided by: the float normal is              *)
(*     normal / sqrt(norm2) and the float distance is                      *)
(*     distance / sqrt(norm2).  A default-constructed Plane has normal 0,  *)
(*     distance 0 and norm2 1 (nothing was divided).  nan = TRUE is the    *)
(*     plane glm::normalize makes of a zero cross product.                 *)
(* Every comparison of the code against 0.01 or 0.0001 is made on these    *)
(* exact values (squared where a square root is involved).                 *)
(***************************************************************************)
EXTENDS Integers, Sequences, FiniteSets, TLC

VARIABLES
    cvBrush,    \* the Brush handed to BrushConverter::ConvertBrushToMesh
    cvMesh,     \* the Mesh it returned
    cvVertices, \* its local `vertices`: what CalculateVertices returned
    cvFaces,    \* what BuildFace returned for each plane, in plane order
    cvLog,      \* the LOG_WARNING messages of the call
    cvPc,       \* "ready" before the call, "done" after it, "idle" if unused
    inDoc,      \* the document the level file was written from
    inEdit,     \* the one change made to a plane line of it when writing
    fsFile,     \* the level file on disk: its text
    wLevelGeometry, \* World::levelGeometry
    wTextureCache,  \* World::textureCache
    wMap,           \* World::map
    wWorldspawn,    \* World::worldspawn
    ldPath,     \* the path given to the last World::LoadMap
    ldResult,   \* how the last call on the World ended: "none" before the
                \* first, LoadMap "true" or "false" returned, "throw",
                \* "crash"; "unloaded" after Unload
    ldLog,      \* the warnings and errors logged by the last World::LoadMap
    txIn,       \* the argument of a call of one function of MapLoader,
                \* Entity, Mesh or BrushConverter: [kind, text] and what
                \* else the call is given
    txOut,      \* what the call returned
    txPc,       \* "ready" before the call, the name of the function called
                \* after it, "idle" if unused
    clBrushes,  \* the list handed to BrushConverter::ConvertBrushesToMeshes
    clMeshes,   \* the list it returned
    clPc,       \* "ready" before the call, "done" after it, "idle" if unused
    camera,     \* the Camera: its yaw, pitch, distances, target and position
    input,      \* the Input: its gamepad and its button, key and mouse states
    sdl,        \* what SDL reports: the key and the mouse button held
    loop        \* the frame of the main loop: where it is (pc; "idle" if
                \* unused), the events polled in it, and what the frame
                \* saw: the buttons put down in it, the buttons pressed at
                \* the queries of the frame before, and the answers of
                \* IsButtonPressed and IsButtonJustPressed in this one

cvVars == <<cvBrush, cvMesh, cvVertices, cvFaces, cvLog, cvPc>>

ldVars == <<inDoc, inEdit, fsFile, wLevelGeometry, wTextureCache, wMap,
            wWorldspawn, ldPath, ldResult, ldLog>>

txVars == <<txIn, txOut, txPc>>

clVars == <<clBrushes, clMeshes, clPc>>

camVars == <<camera>>

inVars == <<input, sdl, loop>>

vars == <<cvVars, ldVars, txVars, clVars, camVars, inVars>>

(***************************************************************************)
(* Bounds of the model                                                     *)
(***************************************************************************)
MaxCoord == 1
\* a garbage number read past the end of a vector is one of 0..MaxGarbage
MaxGarbage == 0

(***************************************************************************)
(* Program constants                                                       *)
(***************************************************************************)
\* 0.01 = 1 / EpsDen: the epsilon of IsPointInsideBrush, of the duplicate
\* test and of the on-plane test
EpsDen == 100
\* 0.0001 = 1 / DetDen: the singularity threshold of IntersectThreePlanes
DetDen == 10000
\* a brush needs at least MinPlanes planes
MinPlanes == 4
\* the reference texel grid of CalculateUV
TexelGrid == 64

(***************************************************************************)
(* glm vectors                                                             *)
(***************************************************************************)
Abs(a) == IF a < 0 THEN -a ELSE a

RECURSIVE Gcd(_, _)
Gcd(a, b) == IF b = 0 THEN a ELSE Gcd(b, a % b)

Dot3(a, b) == a[1] * b[1] + a[2] * b[2] + a[3] * b[3]

Cross3(a, b) ==
    << a[2] * b[3] - a[3] * b[2],
       a[3] * b[1] - a[1] * b[3],
       a[1] * b[2] - a[2] * b[1] >>

Sub3(a, b) == << a[1] - b[1], a[2] - b[2], a[3] - b[3] >>

Scale3(k, a) == << k * a[1], k * a[2], k * a[3] >>

Add3(a, b) == << a[1] + b[1], a[2] + b[2], a[3] + b[3] >>

Zero3 == << 0, 0, 0 >>

NaNVec == [nan |-> TRUE, x |-> 0, y |-> 0, z |-> 0, w |-> 1]

\* the point (v[1]/w, v[2]/w, v[3]/w), w # 0, in lowest terms with w > 0
MkPoint(v, w) ==
    LET g == Gcd(Gcd(Gcd(Abs(v[1]), Abs(v[2])), Abs(v[3])), Abs(w))
        s == IF w < 0 THEN -g ELSE g
    IN  [nan |-> FALSE, x |-> v[1] \div s, y |-> v[2] \div s,
         z |-> v[3] \div s, w |-> w \div s]

IntPoint(v) == [nan |-> FALSE, x |-> v[1], y |-> v[2], z |-> v[3], w |-> 1]

Num3(p) == << p.x, p.y, p.z >>

\* sq / s2 < (1/EpsDen)^2, for s2 >= 1: a length or distance below 0.01
BelowEps(sq, s2) == sq <= (s2 - 1) \div (EpsDen * EpsDen)

\* t / sqrt(s2) > 1/EpsDen, for s2 >= 1
AboveEps(t, s2) == t > 0 /\ t * t > s2 \div (EpsDen * EpsDen)

(***************************************************************************)
(* Plane (MapLoader.h) and MapLoader::ComputePlaneEquation                 *)
(***************************************************************************)
\* Plane::Plane(): everything zero, scale 1
DefaultPlane ==
    [p1 |-> Zero3, p2 |-> Zero3, p3 |-> Zero3,
     normal |-> Zero3, norm2 |-> 1, distance |-> 0, nan |-> FALSE,
     texture |-> << >>, offsetX |-> 0, offsetY |-> 0, rotation |-> 0,
     scaleX |-> 1, scaleY |-> 1]

\* a mutant: the operands of the cross product swapped (normals point inward)
ComputePlaneEquation_swapped(plane) ==
    LET v1 == Sub3(plane.p2, plane.p1)
        v2 == Sub3(plane.p3, plane.p1)
        c  == Cross3(v1, v2)
    IN  IF c = Zero3
        THEN [plane EXCEPT !.nan = TRUE]
        ELSE [plane EXCEPT !.normal = c, !.norm2 = Dot3(c, c),
                           !.distance = Dot3(c, plane.p1)]

\* normal = normalize(cross(v2, v1)), distance = dot(normal, p1); the
\* normalisation of a zero vector divides 0 by 0: NaN
ComputePlaneEquation(plane) ==
    LET v1 == Sub3(plane.p2, plane.p1)
        v2 == Sub3(plane.p3, plane.p1)
        c  == Cross3(v2, v1)
    IN  IF c = Zero3
        THEN [plane EXCEPT !.nan = TRUE]
        ELSE [plane EXCEPT !.normal = c, !.norm2 = Dot3(c, c),
                           !.distance = Dot3(c, plane.p1)]

\* numerator of dot(normal, v) - distance at point v, over v.w * sqrt(norm2)
PlaneDist(plane, v) == Dot3(plane.normal, Num3(v)) - plane.distance * v.w

(***************************************************************************)
(* BrushConverter                                                          *)
(***************************************************************************)
\* glm::determinant of the matrix whose rows are the three integer normals
Det3(a, b, c) == Dot3(a, Cross3(b, c))

\* det of the float matrix is Det3 / sqrt(norm2 product); |det| < 0.0001
\* returns NaN, and so does any NaN normal (the comparison is false and the
\* inverse is NaN)
IntersectThreePlanes(p1, p2, p3) ==
    LET det == Det3(p1.normal, p2.normal, p3.normal)
        q   == p1.norm2 * p2.norm2 * p3.norm2
        num == Add3(Add3(Scale3(p1.distance, Cross3(p2.normal, p3.normal)),
                         Scale3(p2.distance, Cross3(p3.normal, p1.normal))),
                    Scale3(p3.distance, Cross3(p1.normal, p2.normal)))
    IN  IF p1.nan \/ p2.nan \/ p3.nan THEN NaNVec
        ELSE IF det * det <= (q - 1) \div (DetDen * DetDen) THEN NaNVec
        ELSE MkPoint(num, det)

\* a mutant: only the planes after the first are tested
IsPointInsideBrush_skipFirst(point, planes) ==
    \A i \in 2..Len(planes) :
        planes[i].nan \/
        ~AboveEps(PlaneDist(planes[i], point),
                  point.w * point.w * planes[i].norm2)

\* dist > epsilon on any plane puts the point outside; a NaN dist compares
\* false
IsPointInsideBrush(point, planes) ==
    \A i \in 1..Len(planes) :
        planes[i].nan \/
        ~AboveEps(PlaneDist(planes[i], point),
                  point.w * point.w * planes[i].norm2)

\* a mutant: the tolerance is one world unit instead of 0.01
IsDuplicate_coarse(vertex, existing) ==
    LET d == Sub3(Scale3(existing.w, Num3(vertex)), Scale3(vertex.w, Num3(existing)))
        s == vertex.w * existing.w
    IN  Dot3(d, d) <= s * s

\* glm::length(vertex - existing) < 0.01f
IsDuplicate(vertex, existing) ==
    LET d == Sub3(Scale3(existing.w, Num3(vertex)), Scale3(vertex.w, Num3(existing)))
        s == vertex.w * existing.w
    IN  BelowEps(Dot3(d, d), s * s)

\* the triples (i, j, k), i < j < k, in the order of the three nested loops
Triples(n) ==
    LET RECURSIVE Ks(_, _, _), Js(_, _), Is(_)
        Ks(i, j, k) == IF k > n THEN << >> ELSE << <<i, j, k>> >> \o Ks(i, j, k + 1)
        Js(i, j)    == IF j > n THEN << >> ELSE Ks(i, j, j + 1) \o Js(i, j + 1)
        Is(i)       == IF i > n THEN << >> ELSE Js(i, i + 1) \o Is(i + 1)
    IN  Is(1)

\* one iteration of the innermost loop: the vertex list after triple t
CalculateVerticesStep(planes, vertices, t) ==
    LET vertex == IntersectThreePlanes(planes[t[1]], planes[t[2]], planes[t[3]])
    IN  IF vertex.nan THEN vertices
        ELSE IF ~IsPointInsideBrush(vertex, planes) THEN vertices
        ELSE IF \E e \in 1..Len(vertices) : IsDuplicate(vertex, vertices[e])
             THEN vertices
        ELSE Append(vertices, vertex)

CalculateVertices(planes) ==
    LET ts == Triples(Len(planes))
        RECURSIVE Loop(_, _)
        Loop(m, vertices) ==
            IF m > Len(ts) THEN vertices
            ELSE Loop(m + 1, CalculateVerticesStep(planes, vertices, ts[m]))
    IN  Loop(1, << >>)

\* std::abs(normal.y) < 0.9f ? (0,1,0) : (1,0,0)
WindingUp(plane) ==
    IF 100 * plane.normal[2] * plane.normal[2] < 81 * plane.norm2
    THEN << 0, 1, 0 >> ELSE << 1, 0, 0 >>

\* where atan2(y, x) lies: 0 for (-pi, 0), 1 for 0, 2 for (0, pi), 3 for pi
AngleRegion(x, y) ==
    IF y < 0 THEN 0 ELSE IF y > 0 THEN 2 ELSE IF x >= 0 THEN 1 ELSE 3

\* atan2(a[2], a[1]) < atan2(b[2], b[1])
AngleLess(a, b) ==
    LET ra == AngleRegion(a[1], a[2])
        rb == AngleRegion(b[1], b[2])
    IN  \/ ra < rb
        \/ ra = rb /\ ra \in {0, 2} /\ a[1] * b[2] - a[2] * b[1] > 0

\* a mutant: the vertices are left in the order they were collected
SortWindingOrder_unsorted(faceVertices, plane) == faceVertices

\* The sort by angle around the centroid.  right and up are kept unnormalised
\* and the offsets from the centre are multiplied by the (positive) common
\* denominator: atan2 keeps its order under positive scalings of x and of y.
\* With a zero normal `right` is NaN, every comparison is false, and the
\* vertices are taken to stay as they are.  Equal angles keep their order.
SortWindingOrder(faceVertices, plane) ==
    LET n     == Len(faceVertices)
        RECURSIVE Prod(_)
        Prod(i) == IF i > n THEN 1 ELSE faceVertices[i].w * Prod(i + 1)
        L     == Prod(1)
        Sc(i) == Scale3(L \div faceVertices[i].w, Num3(faceVertices[i]))
        RECURSIVE Sum(_)
        Sum(i) == IF i > n THEN Zero3 ELSE Add3(Sc(i), Sum(i + 1))
        center == Sum(1)
        right == Cross3(WindingUp(plane), plane.normal)
        up    == Cross3(plane.normal, right)
        Ang(v) ==
            LET da == Sub3(Scale3(n * (L \div v.w), Num3(v)), center)
            IN  << Dot3(da, right), Dot3(da, up) >>
        RECURSIVE Insert(_, _)
        Insert(v, sorted) ==
            IF sorted = << >> THEN << v >>
            ELSE IF AngleLess(Ang(v), Ang(sorted[Len(sorted)]))
                 THEN Append(Insert(v, SubSeq(sorted, 1, Len(sorted) - 1)),
                             sorted[Len(sorted)])
                 ELSE Append(sorted, v)
        RECURSIVE Sort(_, _)
        Sort(i, sorted) ==
            IF i > n THEN sorted ELSE Sort(i + 1, Insert(faceVertices[i], sorted))
    IN  IF n < 3 \/ right = Zero3 THEN faceVertices ELSE Sort(1, << >>)

\* cos and sin of the rotations the model's planes carry (quarter turns)
RotCos(r) == CASE r % 360 = 0 -> 1 [] r % 360 = 180 -> -1 [] OTHER -> 0

RotSin(r) == CASE r % 360 = 90 -> 1 [] r % 360 = 270 -> -1 [] OTHER -> 0

\* the texture coordinate, as numerators u, v over den = 64 * w
CalculateUV(vertex, plane) ==
    LET ax == Abs(plane.normal[1])
        ay == Abs(plane.normal[2])
        az == Abs(plane.normal[3])
        uAxis == IF az > ax /\ az > ay THEN << 1, 0, 0 >>
                 ELSE IF ay > ax THEN << 1, 0, 0 >> ELSE << 0, 1, 0 >>
        vAxis == IF az > ax /\ az > ay THEN << 0, -1, 0 >> ELSE << 0, 0, -1 >>
        u == Dot3(Num3(vertex), uAxis) * plane.scaleX + plane.offsetX * vertex.w
        v == Dot3(Num3(vertex), vAxis) * plane.scaleY + plane.offsetY * vertex.w
        c == RotCos(plane.rotation)
        s == RotSin(plane.rotation)
    IN  IF plane.rotation # 0
        THEN [u |-> u * c - v * s, v |-> u * s + v * c, den |-> TexelGrid * vertex.w]
        ELSE [u |-> u, v |-> v, den |-> TexelGrid * vertex.w]

\* a mutant: the std::abs is missing, every vertex behind the plane is on it
OnPlane_noAbs(plane, vertex) ==
    /\ ~plane.nan
    /\ LET t == PlaneDist(plane, vertex)
       IN  t <= 0 \/ BelowEps(t * t, vertex.w * vertex.w * plane.norm2)

\* std::abs(dot(normal, vertex) - distance) < 0.01f
OnPlane(plane, vertex) ==
    /\ ~plane.nan
    /\ LET t == PlaneDist(plane, vertex)
       IN  BelowEps(t * t, vertex.w * vertex.w * plane.norm2)

\* a mutant: a face of two vertices is let through
DegenerateFace_two(faceVertices) == Len(faceVertices) < 2

\* faceVertices.size() < 3
DegenerateFace(faceVertices) == Len(faceVertices) < 3

BuildFace(plane, vertices) ==
    LET faceVertices == SelectSeq(vertices, LAMBDA v : OnPlane(plane, v))
        sorted == SortWindingOrder(faceVertices, plane)
    IN  IF DegenerateFace(faceVertices) THEN << >>
        ELSE [i \in 1..Len(sorted) |->
                [position |-> sorted[i], normal |-> plane.normal,
                 norm2 |-> plane.norm2, texCoord |-> CalculateUV(sorted[i], plane)]]

\* a mutant: the fan stops one triangle early
FanOf_short(faceVertices) ==
    LET RECURSIVE Fan(_)
        Fan(i) == IF i >= Len(faceVertices) - 1 THEN << >>
                  ELSE << faceVertices[1], faceVertices[i], faceVertices[i + 1] >>
                       \o Fan(i + 1)
    IN  IF Len(faceVertices) >= 3 THEN Fan(2) ELSE << >>

\* the inline fan of BuildFaces: (0, i, i + 1) for i = 1 .. size - 2
FanOf(faceVertices) ==
    LET RECURSIVE Fan(_)
        Fan(i) == IF i >= Len(faceVertices) THEN << >>
                  ELSE << faceVertices[1], faceVertices[i], faceVertices[i + 1] >>
                       \o Fan(i + 1)
    IN  IF Len(faceVertices) >= 3 THEN Fan(2) ELSE << >>

\* what BuildFace returns for each plane, in plane order
FacesOf(planes, vertices) ==
    [i \in 1..Len(planes) |-> BuildFace(planes[i], vertices)]

BuildFaces(faces) ==
    LET RECURSIVE Loop(_)
        Loop(i) == IF i > Len(faces) THEN << >> ELSE FanOf(faces[i]) \o Loop(i + 1)
    IN  Loop(1)

EmptyMesh == [vertices |-> << >>, indices |-> << >>]

\* a mutant: the plane-count guard is off by one (3 planes are let through)
TooFewPlanes_three(planes) == Len(planes) < MinPlanes - 1

\* brush.planes.size() < 4
TooFewPlanes(planes) == Len(planes) < MinPlanes

\* The whole call: the returned Mesh, the warnings logged, and the locals
\* `vertices` and the per-plane faces as they were when it returned.
ConvertBrushToMesh(brush) ==
    LET vertices     == CalculateVertices(brush.planes)
        faces        == FacesOf(brush.planes, vertices)
        meshVertices == BuildFaces(faces)
    IN  IF TooFewPlanes(brush.planes)
        THEN [mesh |-> EmptyMesh, vertices |-> << >>, faces |-> << >>,
              log |-> << "Brush has less than 4 planes, cannot form a 3D solid" >>]
        ELSE IF vertices = << >>
        THEN [mesh |-> EmptyMesh, vertices |-> vertices, faces |-> << >>,
              log |-> << "Brush generated no vertices" >>]
        ELSE IF meshVertices = << >>
        THEN [mesh |-> EmptyMesh, vertices |-> vertices, faces |-> faces,
              log |-> << "Brush generated no faces" >>]
        ELSE [mesh |-> [vertices |-> meshVertices,
                        indices |-> [i \in 1..Len(meshVertices) |-> i - 1]],
              vertices |-> vertices, faces |-> faces, log |-> << >>]

(***************************************************************************)
(* MapLoader: text.  A std::string is a sequence of one-character strings. *)
(* The loops over a text run their step on each character in order; the    *)
(* recursion halves the range so that its depth stays logarithmic.         *)
(***************************************************************************)
NL == "\n"

IsDigit(c) == c \in {"0", "1", "2", "3", "4", "5", "6", "7", "8", "9"}

DigitValue(c) ==
    CASE c = "0" -> 0 [] c = "1" -> 1 [] c = "2" -> 2 [] c = "3" -> 3
      [] c = "4" -> 4 [] c = "5" -> 5 [] c = "6" -> 6 [] c = "7" -> 7
      [] c = "8" -> 8 [] c = "9" -> 9

IsWhitespace(c) == c \in {" ", "\t", "\r", "\n"}

\* the loop "for i = lo .. hi: st = Step(st, i)".  The range is halved and
\* the state after the first half is computed before the second half is
\* entered, which keeps the depth of the evaluation logarithmic in the
\* length of the text.
RECURSIVE ForLoop(_, _, _, _)
ForLoop(Step(_, _), st, lo, hi) ==
    IF lo > hi THEN st
    ELSE IF lo = hi THEN Step(st, lo)
    ELSE LET mid  == (lo + hi) \div 2
             left == ForLoop(Step, st, lo, mid)
         IN  IF DOMAIN left # {} THEN ForLoop(Step, left, mid + 1, hi) ELSE left

Trim(str) ==
    LET RECURSIVE Start(_), End(_)
        Start(i) == IF i <= Len(str) /\ IsWhitespace(str[i]) THEN Start(i + 1) ELSE i
        End(j) == IF j >= Start(1) /\ IsWhitespace(str[j]) THEN End(j - 1) ELSE j
    IN  SubSeq(str, Start(1), End(Len(str)))

\* a mutant: the comment is cut out together with its newline
RemoveCommentsStep_eatNewline(content, st, i) ==
    LET c == content[i]
    IN  IF st.skip THEN [st EXCEPT !.skip = FALSE]
        ELSE IF ~st.inComment /\ i + 1 <= Len(content) /\ c = "/" /\ content[i + 1] = "/"
             THEN [st EXCEPT !.inComment = TRUE, !.skip = TRUE]
        ELSE IF st.inComment /\ c = NL
             THEN [st EXCEPT !.inComment = FALSE]
        ELSE IF ~st.inComment
             THEN [st EXCEPT !.result = Append(@, c)]
        ELSE st

\* the body of the loop of RemoveComments at character i; skip stands for the
\* i++ that steps over the second slash
RemoveCommentsStep(content, st, i) ==
    LET c == content[i]
    IN  IF st.skip THEN [st EXCEPT !.skip = FALSE]
        ELSE IF ~st.inComment /\ i + 1 <= Len(content) /\ c = "/" /\ content[i + 1] = "/"
             THEN [st EXCEPT !.inComment = TRUE, !.skip = TRUE]
        ELSE IF st.inComment /\ c = NL
             THEN [st EXCEPT !.inComment = FALSE, !.result = Append(@, NL)]
        ELSE IF ~st.inComment
             THEN [st EXCEPT !.result = Append(@, c)]
        ELSE st

RemoveComments(content) ==
    ForLoop(LAMBDA st, i : RemoveCommentsStep(content, st, i),
            [result |-> << >>, inComment |-> FALSE, skip |-> FALSE],
            1, Len(content)).result

\* a mutant: a block that is empty after trimming is kept
KeepBlock_always(block) == TRUE

\* if (!block.empty()) blocks.push_back(block)
KeepBlock(block) == block # << >>

\* a mutant: the block starts at its opening brace
SplitIntoBlocksStep_keepBrace(content, open, close, st, i) ==
    IF content[i] = open
    THEN [st EXCEPT !.blockStart = IF st.depth = 0 THEN i ELSE @,
                    !.depth = @ + 1]
    ELSE IF content[i] = close
    THEN IF st.depth - 1 = 0
         THEN LET block == Trim(SubSeq(content, st.blockStart, i - 1))
              IN  [st EXCEPT !.depth = 0,
                             !.blocks = IF KeepBlock(block) THEN Append(@, block) ELSE @]
         ELSE [st EXCEPT !.depth = @ - 1]
    ELSE st

\* the body of the loop of SplitIntoBlocks at character i; blockStart is the
\* 1-based position of the first character of the block
SplitIntoBlocksStep(content, open, close, st, i) ==
    IF content[i] = open
    THEN [st EXCEPT !.blockStart = IF st.depth = 0 THEN i + 1 ELSE @,
                    !.depth = @ + 1]
    ELSE IF content[i] = close
    THEN IF st.depth - 1 = 0
         THEN LET block == Trim(SubSeq(content, st.blockStart, i - 1))
              IN  [st EXCEPT !.depth = 0,
                             !.blocks = IF KeepBlock(block) THEN Append(@, block) ELSE @]
         ELSE [st EXCEPT !.depth = @ - 1]
    ELSE st

SplitIntoBlocks(content, open, close) ==
    ForLoop(LAMBDA st, i : SplitIntoBlocksStep(content, open, close, st, i),
            [blocks |-> << >>, depth |-> 0, blockStart |-> 1],
            1, Len(content)).blocks

\* the lines std::getline reads from a text: the pieces between newlines,
\* without a last piece that is empty
GetLines(text) ==
    LET Step(st, i) ==
            IF text[i] = NL
            THEN [lines |-> Append(st.lines, st.cur), cur |-> << >>]
            ELSE [st EXCEPT !.cur = Append(@, text[i])]
        end == ForLoop(Step, [lines |-> << >>, cur |-> << >>], 1, Len(text))
    IN  IF end.cur = << >> THEN end.lines ELSE Append(end.lines, end.cur)

\* the body of the loop of Tokenize at character c
\* a mutant: the closing quote is not kept
TokenizeStep_dropQuote(st, c) ==
    IF c = "\""
    THEN IF st.inQuotes
         THEN [tokens |-> Append(st.tokens, st.current),
               current |-> << >>, inQuotes |-> FALSE]
         ELSE [tokens |-> IF st.current # << >> THEN Append(st.tokens, st.current)
                          ELSE st.tokens,
               current |-> << c >>, inQuotes |-> TRUE]
    ELSE IF IsWhitespace(c) /\ ~st.inQuotes
    THEN IF st.current # << >>
         THEN [st EXCEPT !.tokens = Append(@, st.current), !.current = << >>]
         ELSE st
    ELSE [st EXCEPT !.current = Append(@, c)]

\* the body of the loop of Tokenize for the character c
TokenizeStep(st, c) ==
    IF c = "\""
    THEN IF st.inQuotes
         THEN [tokens |-> Append(st.tokens, Append(st.current, c)),
               current |-> << >>, inQuotes |-> FALSE]
         ELSE [tokens |-> IF st.current # << >> THEN Append(st.tokens, st.current)
                          ELSE st.tokens,
               current |-> << c >>, inQuotes |-> TRUE]
    ELSE IF IsWhitespace(c) /\ ~st.inQuotes
    THEN IF st.current # << >>
         THEN [st EXCEPT !.tokens = Append(@, st.current), !.current = << >>]
         ELSE st
    ELSE [st EXCEPT !.current = Append(@, c)]

Tokenize(line) ==
    LET end == ForLoop(LAMBDA st, i : TokenizeStep(st, line[i]),
                       [tokens |-> << >>, current |-> << >>, inQuotes |-> FALSE],
                       1, Len(line))
    IN  IF end.current # << >> THEN Append(end.tokens, end.current) ELSE end.tokens

\* std::stof on the texts of the model (a sign, digits, then anything): the
\* value of the longest numeric prefix; no digit there: std::invalid_argument
Stof(token) ==
    LET RECURSIVE Skip(_), Digits(_, _)
        Skip(i) == IF i <= Len(token) /\ IsWhitespace(token[i]) THEN Skip(i + 1) ELSE i
        start  == Skip(1)
        signed == start <= Len(token) /\ token[start] \in {"-", "+"}
        first  == IF signed THEN start + 1 ELSE start
        Digits(i, acc) ==
            IF i <= Len(token) /\ IsDigit(token[i])
            THEN Digits(i + 1, 10 * acc + DigitValue(token[i]))
            ELSE acc
        value == Digits(first, 0)
    IN  IF first <= Len(token) /\ IsDigit(token[first])
        THEN [ok |-> TRUE, value |-> IF signed /\ token[start] = "-" THEN -value ELSE value]
        ELSE [ok |-> FALSE, value |-> 0]

\* a mutant: std::stoi that takes the whole text or throws
Stoi_strict(str) ==
    IF Stof(str).ok /\ \A i \in 1..Len(str) : IsDigit(str[i]) \/ (i = 1 /\ str[i] \in {"-", "+"})
    THEN Stof(str) ELSE [ok |-> FALSE, value |-> 0]

\* std::stoi on the texts of the model: leading whitespace, a sign, digits,
\* then anything; no digit there: std::invalid_argument
Stoi(str) == Stof(str)

(***************************************************************************)
(* MapLoader: the parser.  A call ends "ok" (it returned), "throw" (an      *)
(* exception left it: no function of the repository catches the            *)
(* std::invalid_argument of std::stof) or "crash" (a fault).  Reading       *)
(* tokens[idx] with idx >= tokens.size() is undefined behaviour; ub says    *)
(* what the build makes of it: a fault, an exception out of std::stof, or   *)
(* a garbage value that is read as ub.value.                                *)
(***************************************************************************)
\* tokens.size() < 15
MinTokens == 15

Warning(text) == [level |-> "WARNING", text |-> text]

Error(text) == [level |-> "ERROR", text |-> text]

\* the token indexes (0-based, as in the code) that ParsePlane reads, in the
\* order it reads them; all but the texture name at 15 go through std::stof
PlaneReads == << 1, 2, 3, 6, 7, 8, 11, 12, 13, 15, 16, 17, 18, 19, 20 >>

TextureIndex == 15

\* a mutant: the line is rejected unless it has all 21 tokens of the grammar
TooFewTokens_grammar(tokens) == Len(tokens) < 21

\* tokens.size() < 15
TooFewTokens(tokens) == Len(tokens) < MinTokens

\* ParsePlane after the line is tokenized
PlaneFromTokens(tokens, ub) ==
    LET n      == Len(tokens)
        Fails(idx) == \/ idx >= n
                      \/ idx # TextureIndex /\ ~Stof(tokens[idx + 1]).ok
        failed == { r \in 1..Len(PlaneReads) : Fails(PlaneReads[r]) }
        first  == PlaneReads[CHOOSE r \in failed : \A q \in failed : r <= q]
        Num(idx) == IF idx >= n THEN ub.value ELSE Stof(tokens[idx + 1]).value
        plane  == [DefaultPlane EXCEPT
                     !.p1 = << Num(1), Num(2), Num(3) >>,
                     !.p2 = << Num(6), Num(7), Num(8) >>,
                     !.p3 = << Num(11), Num(12), Num(13) >>,
                     !.texture = IF TextureIndex >= n THEN << "?" >>
                                 ELSE tokens[TextureIndex + 1],
                     !.offsetX = Num(16), !.offsetY = Num(17),
                     !.rotation = Num(18),
                     !.scaleX = Num(19), !.scaleY = Num(20)]
    IN  IF TooFewTokens(tokens)
        THEN [status |-> "ok", plane |-> DefaultPlane,
              log |-> << Warning("Invalid plane format") >>]
        ELSE IF failed # {} /\ first < n
        THEN [status |-> "throw", plane |-> DefaultPlane, log |-> << >>]
        ELSE IF failed # {} /\ ub.kind # "garbage"
        THEN [status |-> ub.kind, plane |-> DefaultPlane, log |-> << >>]
        ELSE [status |-> "ok", plane |-> ComputePlaneEquation(plane), log |-> << >>]

ParsePlane(line, ub) == PlaneFromTokens(Tokenize(line), ub)

\* brush.planes.push_back(plane): whatever ParsePlane returned
PushPlane(planes, r) == Append(planes, r.plane)

\* Plane plane = ParsePlane(line); brush.planes.push_back(plane), where r is
\* what ParsePlane did
AddPlane(st, r) ==
    [status |-> r.status,
     brush |-> [planes |-> IF r.status = "ok" THEN PushPlane(st.brush.planes, r)
                           ELSE st.brush.planes],
     log |-> st.log \o r.log]

\* the body of the loop of ParseBrush for one trimmed line
ParseBrushLine(st, line, ub) ==
    IF st.status # "ok" \/ line = << >> \/ line[1] # "(" THEN st
    ELSE AddPlane(st, ParsePlane(line, ub))

\* ParseBrush on the lines of the block
ParseBrushLines(lines, ub) ==
    ForLoop(LAMBDA st, i : ParseBrushLine(st, Trim(lines[i]), ub),
            [status |-> "ok", brush |-> [planes |-> << >>], log |-> << >>],
            1, Len(lines))

ParseBrush(block, ub) == ParseBrushLines(GetLines(block), ub)

\* Entity: classname, properties (a std::map: pairs <<key, value>> with
\* unique keys) and brushes
DefaultEntity == [classname |-> << >>, properties |-> {}, brushes |-> << >>]

\* a mutant: the quotes stay on
StripQuotes_keep(str) == str

\* if (front == '"' && back == '"') substr(1, length - 2)
StripQuotes(str) ==
    IF str # << >> /\ str[1] = "\"" /\ str[Len(str)] = "\""
    THEN SubSeq(str, 2, Len(str) - 1) ELSE str

CLASSNAME == << "c", "l", "a", "s", "s", "n", "a", "m", "e" >>

\* a mutant: a key that is there keeps its value
SetProperty_keepFirst(properties, key, value) ==
    IF \E p \in properties : p[1] = key THEN properties
    ELSE properties \cup { << key, value >> }

\* entity.properties[key] = value
SetProperty(properties, key, value) ==
    { p \in properties : p[1] # key } \cup { << key, value >> }

\* the change of braceDepth over one line
BraceDelta(line) ==
    LET Step(st, i) == IF line[i] = "{" THEN [d |-> st.d + 1]
                       ELSE IF line[i] = "}" THEN [d |-> st.d - 1] ELSE st
    IN  ForLoop(Step, [d |-> 0], 1, Len(line)).d

\* a mutant: the inner loop takes two lines per round
ScanBrushStep_skip(lines, st, k) ==
    IF st.depth <= 0 THEN st
    ELSE [next  |-> k + 2,
          depth |-> st.depth + BraceDelta(lines[k]),
          block |-> IF st.depth + BraceDelta(lines[k]) > 0
                    THEN st.block \o << NL >> \o lines[k] ELSE st.block]

\* one round of the inner loop of ParseEntity: line k is read, the depth
\* is counted through it, and the line is added unless it closes the block
ScanBrushStep(lines, st, k) ==
    IF st.depth <= 0 THEN st
    ELSE [next  |-> k + 1,
          depth |-> st.depth + BraceDelta(lines[k]),
          block |-> IF st.depth + BraceDelta(lines[k]) > 0
                    THEN st.block \o << NL >> \o lines[k] ELSE st.block]

\* the inner loop of ParseEntity from line j on: the brush block, and the
\* line the outer loop goes on with
ScanBrush(lines, j, brushBlock) ==
    ForLoop(LAMBDA st, k : ScanBrushStep(lines, st, k),
            [next |-> j, depth |-> 1, block |-> brushBlock], j, Len(lines))

\* Brush brush = ParseBrush(brushBlock); entity.brushes.push_back(brush),
\* where r is what ParseBrush did
AddBrush(st, next, r) ==
    [status |-> r.status, next |-> next,
     entity |-> IF r.status = "ok"
                THEN [st.entity EXCEPT !.brushes = Append(@, r.brush)]
                ELSE st.entity,
     log |-> st.log \o r.log]

ScannedBrush(st, sc, ub) == AddBrush(st, sc.next, ParseBrush(sc.block, ub))

SetKeyValue(st, key, value) ==
    IF key = CLASSNAME THEN [st EXCEPT !.entity.classname = value]
    ELSE [st EXCEPT !.entity.properties = SetProperty(@, key, value)]

\* a property line, tokenized
PropertyLine(st, tokens) ==
    IF Len(tokens) < 2 THEN st
    ELSE SetKeyValue(st, StripQuotes(tokens[1]), StripQuotes(tokens[2]))

\* the body of the outer loop of ParseEntity for the trimmed line i
ParseEntityLine(lines, st, i, line, ub) ==
    IF st.status # "ok" \/ i < st.next \/ line = << >> THEN st
    ELSE IF line[1] = "{"
    THEN ScannedBrush(st, ScanBrush(lines, i + 1, SubSeq(line, 2, Len(line))), ub)
    ELSE IF line[1] = "\"" THEN PropertyLine(st, Tokenize(line))
    ELSE st

\* ParseEntity on the lines of the block; the lines before st.next are
\* those the inner loop has read
ParseEntityLines(lines, ub) ==
    ForLoop(LAMBDA st, i : ParseEntityLine(lines, st, i, Trim(lines[i]), ub),
            [status |-> "ok", next |-> 1, entity |-> DefaultEntity, log |-> << >>],
            1, Len(lines))

ParseEntity(block, ub) == ParseEntityLines(GetLines(block), ub)

EmptyMap == [entities |-> << >>, worldspawn |-> DefaultEntity]

\* a file as the loader sees it: whether it can be opened, and its text
NoFile == [exists |-> FALSE, content |-> << >>]

\* Entity entity = ParseEntity(block); map.entities.push_back(entity), where
\* r is what ParseEntity did
AddEntity(st, r) ==
    [status |-> r.status,
     map |-> IF r.status = "ok" THEN [st.map EXCEPT !.entities = Append(@, r.entity)]
             ELSE st.map,
     log |-> st.log \o r.log]

\* the loop of LoadFromFile over the entity blocks
ParseEntities(entityBlocks, ub) ==
    ForLoop(LAMBDA st, i : IF st.status # "ok" THEN st
                           ELSE AddEntity(st, ParseEntity(entityBlocks[i], ub)),
            [status |-> "ok", map |-> EmptyMap, log |-> << >>],
            1, Len(entityBlocks))

\* the end of LoadFromFile: map.worldspawn = map.entities[0]
WithWorldspawn(parsed) ==
    IF parsed.status # "ok" THEN [parsed EXCEPT !.map = EmptyMap]
    ELSE IF parsed.map.entities # << >>
    THEN [parsed EXCEPT !.map.worldspawn = parsed.map.entities[1]]
    ELSE parsed

LoadFromFile(file, ub) ==
    IF ~file.exists
    THEN [status |-> "ok", map |-> EmptyMap,
          log |-> << Error("Failed to open MAP file") >>]
    ELSE WithWorldspawn(
             ParseEntities(SplitIntoBlocks(RemoveComments(file.content), "{", "}"), ub))

\* operator>> for a float on the texts of the model, from position pos on:
\* whitespace is skipped, then a sign and digits are read; no digit there
\* fails the extraction
ReadFloat(str, pos) ==
    LET RECURSIVE Skip(_), Digits(_)
        Skip(i) == IF i <= Len(str) /\ IsWhitespace(str[i]) THEN Skip(i + 1) ELSE i
        start  == Skip(pos)
        signed == start <= Len(str) /\ str[start] \in {"-", "+"}
        first  == IF signed THEN start + 1 ELSE start
        Digits(i) == IF i <= Len(str) /\ IsDigit(str[i]) THEN Digits(i + 1) ELSE i
        next   == Digits(first)
    IN  [ok |-> next > first, value |-> Stof(SubSeq(str, start, next - 1)).value,
         next |-> next]

\* the value of the key in entity.properties: properties.find(key)
Found(entity, key) == { p \in entity.properties : p[1] = key }

\* Entity::GetInt: std::stoi, its exceptions caught
GetInt(entity, key, defaultValue) ==
    IF Found(entity, key) = {} THEN defaultValue
    ELSE LET r == Stoi((CHOOSE p \in Found(entity, key) : TRUE)[2])
         IN  IF r.ok THEN r.value ELSE defaultValue

\* Entity::GetFloat: std::stof, its exceptions caught
GetFloat(entity, key, defaultValue) ==
    IF Found(entity, key) = {} THEN defaultValue
    ELSE LET r == Stof((CHOOSE p \in Found(entity, key) : TRUE)[2])
         IN  IF r.ok THEN r.value ELSE defaultValue

\* Entity::GetString
GetString(entity, key, defaultValue) ==
    IF Found(entity, key) = {} THEN defaultValue
    ELSE (CHOOSE p \in Found(entity, key) : TRUE)[2]

\* iss >> result.x >> result.y >> result.z
GetVector3(entity, key, defaultValue) ==
    LET found == { p \in entity.properties : p[1] = key }
        str   == (CHOOSE p \in found : TRUE)[2]
        x     == ReadFloat(str, 1)
        y     == ReadFloat(str, x.next)
        z     == ReadFloat(str, y.next)
    IN  IF found = {} THEN defaultValue
        ELSE IF x.ok /\ y.ok /\ z.ok THEN << x.value, y.value, z.value >>
        ELSE defaultValue

ORIGIN == << "o", "r", "i", "g", "i", "n" >>

GetOrigin(entity) == GetVector3(entity, ORIGIN, Zero3)

\* the index (1-based) of the first entity of that class, 0 for nullptr
FindEntityByClass(map, classname) ==
    LET hits == { i \in 1..Len(map.entities) : map.entities[i].classname = classname }
    IN  IF hits = {} THEN 0 ELSE CHOOSE i \in hits : \A j \in hits : i <= j

(***************************************************************************)
(* The brushes the converter is run on                                     *)
(***************************************************************************)
Coords == -MaxCoord..MaxCoord

TEX == << "T", "E", "X" >>

UnitVec(axis) == [i \in 1..3 |-> IF i = axis THEN 1 ELSE 0]

NextAxis(axis) == (axis % 3) + 1

\* a plane as ParsePlane builds it from three points and a texture name
PlaneOf(p1, p2, p3, texture) ==
    ComputePlaneEquation([DefaultPlane EXCEPT !.p1 = p1, !.p2 = p2, !.p3 = p3,
                                              !.texture = texture])

\* the plane through `at` whose outward normal is sign * e_axis, written with
\* the winding of the MAP format
AxialPlane(at, axis, sign) ==
    LET a == UnitVec(NextAxis(axis))
        b == UnitVec(NextAxis(NextAxis(axis)))
    IN  IF sign < 0 THEN PlaneOf(at, Add3(at, a), Add3(at, b), TEX)
                    ELSE PlaneOf(at, Add3(at, b), Add3(at, a), TEX)

\* the six planes of the box [lo, hi]: -x, -y, -z, +x, +y, +z
BoxPlanes(lo, hi) ==
    << AxialPlane(lo, 1, -1), AxialPlane(lo, 2, -1), AxialPlane(lo, 3, -1),
       AxialPlane(hi, 1, 1), AxialPlane(hi, 2, 1), AxialPlane(hi, 3, 1) >>

Perms(n) == { f \in [1..n -> 1..n] : \A i, j \in 1..n : f[i] = f[j] => i = j }

Permuted(seq, f) == [i \in 1..Len(seq) |-> seq[f[i]]]

Corners3 == Coords \X Coords \X Coords

IsBox(lo, hi) == \A i \in 1..3 : lo[i] < hi[i]

Far == << MaxCoord, MaxCoord, MaxCoord >>

Near == << -MaxCoord, -MaxCoord, -MaxCoord >>

\* boxes from the near corner, each in every declaration order of its planes
BoxesAnyOrder ==
    { [planes |-> Permuted(BoxPlanes(Near, << h, MaxCoord, MaxCoord >>), f)] :
        h \in (1 - MaxCoord)..MaxCoord, f \in Perms(6) }

Rotation(n, k) == [i \in 1..n |-> ((i + k - 1) % n) + 1]

\* every box of the grid, in the six rotations of the declaration order
BoxesRotated ==
    { [planes |-> Permuted(BoxPlanes(b[1], b[2]), Rotation(6, k))] :
        b \in {c \in Corners3 \X Corners3 : IsBox(c[1], c[2])}, k \in 0..5 }

BoxBrushes == BoxesAnyOrder \cup BoxesRotated

\* "boxes" that are flat (lo = hi on an axis) or inside out (lo > hi)
DegenerateBoxes ==
    { [planes |-> BoxPlanes(Zero3, hi)] : hi \in {h \in Corners3 : ~IsBox(Zero3, h)} }

\* the first n planes of a box, in every order: too few planes, open solids
PrefixBrushes ==
    { [planes |-> SubSeq(Permuted(BoxPlanes(Near, Far), f), 1, n)] :
        f \in Perms(6), n \in 0..5 }

\* normal (1, 1, 1), x + y + z <= k
DiagPlane(k) == PlaneOf(<< k, 0, 0 >>, << k - 1, 0, 1 >>, << k - 1, 1, 0 >>, TEX)

\* normal (1, 2, 0), x + 2y <= k: its corners are not on the integer grid
SlopePlane(k) == PlaneOf(<< k, 0, 0 >>, << k + 2, -1, 0 >>, << k, 0, 1 >>, TEX)

\* three collinear points: normalize(0) makes the normal NaN
CollinearPlane == PlaneOf(Zero3, << 1, 0, 0 >>, << 2, 0, 0 >>, TEX)

ExtraPlanes ==
    { AxialPlane(<< k, k, k >>, axis, sign) :
        k \in -MaxCoord..(MaxCoord + 1), axis \in 1..3, sign \in {-1, 1} }
    \cup { DiagPlane(k) : k \in (-3 * MaxCoord)..(3 * MaxCoord + 1) }
    \cup { SlopePlane(k) : k \in (-2 * MaxCoord)..(3 * MaxCoord) }
    \cup { DefaultPlane, CollinearPlane }

\* a box and one more plane, declared first, in the middle or last
ExtendedBrushes ==
    { [planes |-> SubSeq(BoxPlanes(Near, Far), 1, n) \o << e >>
                  \o SubSeq(BoxPlanes(Near, Far), n + 1, 6)] :
        e \in ExtraPlanes, n \in {0, 3, 6} }

\* three axial planes at lo and one slanted plane: the smallest solids
TetraBrushes ==
    { [planes |-> SubSeq(BoxPlanes(lo, lo), 1, 3) \o << DiagPlane(k) >>] :
        lo \in {Zero3, Near}, k \in (-3 * MaxCoord)..(3 * MaxCoord + 1) }

ConvInputs ==
    BoxBrushes \cup DegenerateBoxes \cup PrefixBrushes \cup ExtendedBrushes
    \cup TetraBrushes

(***************************************************************************)
(* World (World.cpp)                                                       *)
(***************************************************************************)
WORLDSPAWN == << "w", "o", "r", "l", "d", "s", "p", "a", "w", "n" >>

\* World::Unload: the three clears; World::worldspawn and map.worldspawn
\* are left as they are
Unload(w) ==
    [w EXCEPT !.levelGeometry = << >>, !.textureCache = {},
              !.map.entities = << >>]

\* if (map.entities.empty()) return false
MapFailed(map) == map.entities = << >>

\* a mutant: the texture name of the last plane of the brush
AddRenderObject_lastplane(st, brush, r, texOk) ==
    LET textureName == IF brush.planes # << >> THEN brush.planes[Len(brush.planes)].texture
                       ELSE << "t", "e", "s", "t", "_", "t", "e", "x",
                               "t", "u", "r", "e" >>
        cached == \E t \in st.w.textureCache : t[1] = textureName
    IN  IF r.mesh.vertices = << >>
        THEN [st EXCEPT !.log = @ \o [k \in 1..Len(r.log) |-> Warning(r.log[k])]]
        ELSE [w |-> [st.w EXCEPT
                       !.textureCache =
                           IF cached THEN @
                           ELSE @ \cup { << textureName, [white |-> ~texOk] >> },
                       !.levelGeometry =
                           Append(@, [mesh |-> r.mesh, texture |-> textureName])],
              log |-> st.log \o (IF cached \/ texOk THEN << >>
                                 ELSE << Warning("Failed to load texture") >>)]

\* the body of the loop of LoadMap over the worldspawn brushes, where r is
\* what ConvertBrushToMesh did.  A texture is a cache entry
\* <<name, [white]>>; a RenderObject points at the entry of its texture
\* name.  texOk: the texture files can be loaded.
AddRenderObject(st, brush, r, texOk) ==
    LET textureName == IF brush.planes # << >> THEN brush.planes[1].texture
                       ELSE << "t", "e", "s", "t", "_", "t", "e", "x",
                               "t", "u", "r", "e" >>
        cached == \E t \in st.w.textureCache : t[1] = textureName
    IN  IF r.mesh.vertices = << >>
        THEN [st EXCEPT !.log = @ \o [k \in 1..Len(r.log) |-> Warning(r.log[k])]]
        ELSE [w |-> [st.w EXCEPT
                       !.textureCache =
                           IF cached THEN @
                           ELSE @ \cup { << textureName, [white |-> ~texOk] >> },
                       !.levelGeometry =
                           Append(@, [mesh |-> r.mesh, texture |-> textureName])],
              log |-> st.log \o (IF cached \/ texOk THEN << >>
                                 ELSE << Warning("Failed to load texture") >>)]

LoadBrushes(w, brushes, texOk) ==
    ForLoop(LAMBDA st, i : AddRenderObject(st, brushes[i],
                                           ConvertBrushToMesh(brushes[i]), texOk),
            [w |-> w, log |-> << >>], 1, Len(brushes))

\* the end of LoadMap, where r is what the loop over the brushes did
MapLoaded(loaded, r) ==
    [w |-> r.w, result |-> "true",
     log |-> loaded.log
             \o (IF loaded.map.entities[1].classname # WORLDSPAWN
                 THEN << Warning("First entity is not worldspawn") >> ELSE << >>)
             \o r.log]

\* World::LoadMap on a world w, given what MapLoader::LoadFromFile did
\* (loaded): the world afterwards, how the call ended, what it logged
LoadMapFrom(w, loaded, texOk) ==
    IF loaded.status # "ok"
    THEN [w |-> Unload(w), result |-> loaded.status, log |-> loaded.log]
    ELSE IF MapFailed(loaded.map)
    THEN [w |-> [Unload(w) EXCEPT !.map = loaded.map], result |-> "false",
          log |-> loaded.log \o << Error("Failed to parse map or map is empty") >>]
    ELSE MapLoaded(loaded,
                   LoadBrushes([Unload(w) EXCEPT
                                  !.map = loaded.map,
                                  !.worldspawn = loaded.map.entities[1]],
                               loaded.map.entities[1].brushes, texOk))

(***************************************************************************)
(* The level files the loader is run on: a document (entities, their       *)
(* properties, brushes and planes) written out as text in the MAP format,  *)
(* with at most one plane line damaged.                                    *)
(***************************************************************************)
DigitChar(d) ==
    CASE d = 0 -> "0" [] d = 1 -> "1" [] d = 2 -> "2" [] d = 3 -> "3" [] d = 4 -> "4"
      [] d = 5 -> "5" [] d = 6 -> "6" [] d = 7 -> "7" [] d = 8 -> "8" [] d = 9 -> "9"

RECURSIVE NatText(_)
NatText(n) == IF n < 10 THEN << DigitChar(n) >>
              ELSE Append(NatText(n \div 10), DigitChar(n % 10))

IntText(n) == IF n < 0 THEN << "-" >> \o NatText(-n) ELSE NatText(n)

RECURSIVE Joined(_, _)
Joined(pieces, sep) ==
    IF pieces = << >> THEN << >>
    ELSE IF Len(pieces) = 1 THEN pieces[1]
    ELSE pieces[1] \o sep \o Joined(Tail(pieces), sep)

RECURSIVE Concat(_)
Concat(pieces) == IF pieces = << >> THEN << >> ELSE pieces[1] \o Concat(Tail(pieces))

PointTokens(pt) == << << "(" >>, IntText(pt[1]), IntText(pt[2]), IntText(pt[3]), << ")" >> >>

\* the 21 tokens of a plane line
PlaneTokens(plane) ==
    PointTokens(plane.p1) \o PointTokens(plane.p2) \o PointTokens(plane.p3)
    \o << plane.texture, IntText(plane.offsetX), IntText(plane.offsetY),
          IntText(plane.rotation), IntText(plane.scaleX), IntText(plane.scaleY) >>

NoEdit == [kind |-> "none", ent |-> 0, brush |-> 0, line |-> 0, pos |-> 0]

\* the positions (1-based) of the tokens of a plane line that are numbers
NumberPositions == {2, 3, 4, 7, 8, 9, 12, 13, 14, 17, 18, 19, 20, 21}

\* "drop": the token at pos is missing; "junk": it is not a number; "cut":
\* only the first pos tokens are there
Edited(tokens, edit) ==
    CASE edit.kind = "drop" ->
           SubSeq(tokens, 1, edit.pos - 1) \o SubSeq(tokens, edit.pos + 1, Len(tokens))
      [] edit.kind = "junk" -> [tokens EXCEPT ![edit.pos] = << "x" >>]
      [] edit.kind = "cut" -> SubSeq(tokens, 1, edit.pos)
      [] OTHER -> tokens

Quoted(str) == << "\"" >> \o str \o << "\"" >>

Comment == << "/", "/", " ", "{", " ", "n", "o", "t", "e" >>

\* the text of the file, every line ended by a newline; the "commented"
\* style indents, and adds comment lines, comments after lines and blank
\* lines
Render(doc, edit) ==
    LET fancy == doc.style = "commented"
        Line(text) == Append(text, NL)
        PlaneLine(e, b, l) ==
            LET toks == PlaneTokens(doc.entities[e].brushes[b][l])
                text == Joined(IF edit.ent = e /\ edit.brush = b /\ edit.line = l
                               THEN Edited(toks, edit) ELSE toks, << " " >>)
            IN  Line(IF fancy THEN << " ", " " >> \o text \o << " " >> \o Comment
                     ELSE text)
        BrushText(e, b) ==
            Line(<< "{" >>)
            \o Concat([l \in 1..Len(doc.entities[e].brushes[b]) |-> PlaneLine(e, b, l)])
            \o Line(<< "}" >>)
        PropLine(kv) == Line(Quoted(kv[1]) \o << " " >> \o Quoted(kv[2]))
        EntityText(e) ==
            (IF fancy THEN Line(Comment) \o Line(<< >>) ELSE << >>)
            \o Line(<< "{" >>)
            \o PropLine(<< CLASSNAME, doc.entities[e].classname >>)
            \o Concat([k \in 1..Len(doc.entities[e].props) |->
                          PropLine(doc.entities[e].props[k])])
            \o Concat([b \in 1..Len(doc.entities[e].brushes) |-> BrushText(e, b)])
            \o Line(<< "}" >>)
    IN  IF doc.style = "raw" THEN doc.raw
        ELSE Concat([e \in 1..Len(doc.entities) |-> EntityText(e)])

PLAYERSTART ==
    << "i", "n", "f", "o", "_", "p", "l", "a", "y", "e", "r", "_", "s", "t", "a", "r", "t" >>

LIGHT == << "l", "i", "g", "h", "t" >>

\* worldspawn with one cube from (-32,-32,-32) to (32,32,32), then
\* info_player_start at "0 0 32"
ScenarioDoc ==
    [name |-> "scenario", style |-> "plain", raw |-> << >>,
     entities |-> <<
        [classname |-> WORLDSPAWN, props |-> << >>,
         brushes |-> << BoxPlanes(<< -32, -32, -32 >>, << 32, 32, 32 >>) >>],
        [classname |-> PLAYERSTART,
         props |-> << << ORIGIN, << "0", " ", "0", " ", "3", "2" >> >> >>,
         brushes |-> << >>] >>]

\* with comments: worldspawn with a property and two brushes, a light, a
\* player start
TwoBrushDoc ==
    [name |-> "two", style |-> "commented", raw |-> << >>,
     entities |-> <<
        [classname |-> WORLDSPAWN,
         props |-> << << << "w", "a", "d" >>, << "a", " ", "b" >> >> >>,
         brushes |-> << BoxPlanes(Near, Far),
                        SubSeq(BoxPlanes(Zero3, Far), 1, 3) \o << DiagPlane(MaxCoord) >> >>],
        [classname |-> LIGHT,
         props |-> << << ORIGIN, IntText(MaxCoord) \o << " " >> \o IntText(-MaxCoord)
                                 \o << " ", "7" >> >>,
                      << LIGHT, << "3", "0", "0" >> >> >>,
         brushes |-> << >>],
        [classname |-> PLAYERSTART,
         props |-> << << ORIGIN, << "0", " ", "0", " ", "3", "2" >> >> >>,
         brushes |-> << >>] >>]

\* a file that opens and holds no entity
RawDoc(name, text) == [name |-> name, style |-> "raw", raw |-> text, entities |-> << >>]

RawDocs ==
    { RawDoc("empty", << >>),
      RawDoc("comment", Comment \o << NL >>),
      RawDoc("blank", << " ", NL, NL >>),
      RawDoc("emptyblock", << "{", NL, "}", NL >>),
      RawDoc("unclosed", << "{", NL >>) }

LAVA == << "l", "a", "v", "a" >>

\* the planes with the texture first on the first line and rest on the others
Textured(planes, first, rest) ==
    [i \in 1..Len(planes) |->
        [planes[i] EXCEPT !.texture = IF i = 1 THEN first ELSE rest]]

\* worldspawn with three boxes whose first lines name the textures lava,
\* TEX and lava again, and whose other lines name the other texture
TexturedDoc ==
    [name |-> "textured", style |-> "plain", raw |-> << >>,
     entities |-> <<
        [classname |-> WORLDSPAWN, props |-> << >>,
         brushes |-> << Textured(BoxPlanes(Near, Zero3), LAVA, TEX),
                        Textured(BoxPlanes(Zero3, Far), TEX, LAVA),
                        Textured(BoxPlanes(Near, Far), LAVA, TEX) >>] >>]

Docs == { ScenarioDoc, TwoBrushDoc, TexturedDoc } \cup RawDocs

\* one damaged plane line: the last line of the last brush of the first
\* entity, and in the two-entity file the first line too
EditsOf(doc) ==
    LET brushes == doc.entities[1].brushes
    IN  { [kind |-> k, ent |-> 1, brush |-> bl[1], line |-> bl[2], pos |-> p] :
            k \in {"drop", "junk", "cut"},
            bl \in { << Len(brushes), Len(brushes[Len(brushes)]) >> }
                   \cup (IF doc.name = "scenario" THEN { << 1, 1 >> } ELSE {}),
            p \in 1..21 }

\* the numbers of tokens a cut line is left with: on both sides of 15
CutLengths == {1, 10, 14, 15, 18}

ValidEdit(ed) ==
    /\ ed.kind = "junk" => ed.pos \in NumberPositions
    /\ ed.kind = "cut" => ed.pos \in CutLengths

\* what the build may make of a read past the end of the token vector
UbOutcomes ==
    { [kind |-> "crash", value |-> 0], [kind |-> "throw", value |-> 0] }
    \cup { [kind |-> "garbage", value |-> v] : v \in 0..MaxGarbage }

EmptyWorld ==
    [levelGeometry |-> << >>, textureCache |-> {}, map |-> EmptyMap,
     worldspawn |-> DefaultEntity]

TheWorld ==
    [levelGeometry |-> wLevelGeometry, textureCache |-> wTextureCache,
     map |-> wMap, worldspawn |-> wWorldspawn]

(***************************************************************************)
(* Camera (Camera.cpp).  A float is [nan, inf, v]: NaN, an infinity        *)
(* (inf = 1 or -1) or the number v.                                        *)
(***************************************************************************)
Num(v) == [nan |-> FALSE, inf |-> 0, v |-> v]

NaN == [nan |-> TRUE, inf |-> 0, v |-> 0]

Infinity(sign) == [nan |-> FALSE, inf |-> sign, v |-> 0]

\* a + b in float: NaN if either is, or if they are opposite infinities
FAdd(a, b) ==
    IF a.nan \/ b.nan \/ (a.inf # 0 /\ a.inf = -b.inf) THEN NaN
    ELSE IF a.inf # 0 THEN a
    ELSE IF b.inf # 0 THEN b
    ELSE Num(a.v + b.v)

FNeg(a) == IF a.nan THEN a ELSE [nan |-> FALSE, inf |-> -a.inf, v |-> -a.v]

\* a > c and a < c for a number c: false for NaN
FGreater(a, c) == ~a.nan /\ (a.inf = 1 \/ (a.inf = 0 /\ a.v > c))

FLess(a, c) == ~a.nan /\ (a.inf = -1 \/ (a.inf = 0 /\ a.v < c))

MaxPitch == 89

InitialPitch == 20

InitialDistance == 5

MinDistance == 1

MaxDistance == 50

\* the finite angle and distance handed to the Camera, and the longest yaw
\* the model follows
QuarterTurn == 90

MaxYaw == 180

\* a deltaTime after which pow(0.9, deltaTime * 60) is 0 in float
LongTime == 60

\* if (pitch > 89.0f) pitch = 89.0f; if (pitch < -89.0f) pitch = -89.0f
ClampPitch(pitch) ==
    IF FGreater(pitch, MaxPitch) THEN Num(MaxPitch)
    ELSE IF FLess(pitch, -MaxPitch) THEN Num(-MaxPitch)
    ELSE pitch

\* if (distFromTarget < 1.0f) ... = 1.0f; if (distFromTarget > 50.0f) ... = 50.0f
ClampDistance(dist) ==
    IF FLess(dist, MinDistance) THEN Num(MinDistance)
    ELSE IF FGreater(dist, MaxDistance) THEN Num(MaxDistance)
    ELSE dist

\* Camera::UpdatePosition: the position is target + distFromTarget *
\* (cos(pitch) sin(yaw), sin(pitch), cos(pitch) cos(yaw)); it is kept as
\* the values it was computed from
UpdatePosition(cam) ==
    [cam EXCEPT !.position = [target |-> cam.target, yaw |-> cam.yaw,
                              pitch |-> cam.pitch, distance |-> cam.distFromTarget]]

\* Camera::Camera
NewCamera ==
    UpdatePosition([yaw |-> Num(0), pitch |-> Num(InitialPitch),
                    distFromTarget |-> Num(InitialDistance),
                    desiredDistance |-> Num(InitialDistance),
                    currentDistance |-> Num(InitialDistance),
                    target |-> Zero3, position |-> << >>])

\* Camera::Orbit(deltaYaw, deltaPitch)
Orbit(cam, deltaYaw, deltaPitch) ==
    UpdatePosition([cam EXCEPT !.yaw = FAdd(@, deltaYaw),
                               !.pitch = ClampPitch(FAdd(@, deltaPitch))])

\* Camera::SetRotation(newYaw, newPitch)
SetRotation(cam, newYaw, newPitch) ==
    UpdatePosition([cam EXCEPT !.yaw = newYaw, !.pitch = ClampPitch(newPitch)])

\* Camera::Zoom(delta)
Zoom(cam, delta) ==
    UpdatePosition([cam EXCEPT !.distFromTarget = ClampDistance(FAdd(@, FNeg(delta)))])

\* Camera::SetDistance(distValue)
SetDistance(cam, distValue) ==
    UpdatePosition([cam EXCEPT !.distFromTarget = distValue,
                               !.desiredDistance = distValue,
                               !.currentDistance = distValue])

\* Camera::SetTarget(newTarget)
SetTarget(cam, newTarget) == UpdatePosition([cam EXCEPT !.target = newTarget])

\* 1 - pow(1 - 0.1, deltaTime * 60): 0 for deltaTime 0, 1 for a long one
SmoothFactor(deltaTime) == IF deltaTime = 0 THEN 0 ELSE 1

\* Camera::FollowTarget(targetPos, deltaTime): glm::mix(target, targetPos, f)
FollowTarget(cam, targetPos, deltaTime) ==
    LET f == SmoothFactor(deltaTime)
    IN  UpdatePosition([cam EXCEPT !.target = Add3(Scale3(1 - f, @),
                                                  Scale3(f, targetPos))])

\* the floats and the points handed to the Camera
FloatArgs ==
    { Num(-QuarterTurn), Num(0), Num(QuarterTurn), NaN, Infinity(1), Infinity(-1) }

TargetArgs == { Zero3, << 1, 2, 3 >> }

CamIdle == camera = NewCamera

(***************************************************************************)
(* Input (Input.cpp, Input.h): the gamepad buttons, one key and one mouse  *)
(* button.  A button map holds "down" (true), "up" (false) or "none" (no   *)
(* entry) for a button; gamepad is the instance id of the open controller  *)
(* or NoGamepad (nullptr).                                                 *)
(***************************************************************************)
Buttons == { "a", "b" }

Devices == { 0, 1 }

NoGamepad == -1

\* the events taken from SDL_PollEvent in one frame
MaxEvents == 2

NoButtons == [b \in Buttons |-> "none"]

\* Input::Input, with the gamepad it found (or none)
NewInput(gamepad) ==
    [gamepad |-> gamepad, currentButtonState |-> NoButtons,
     previousButtonState |-> NoButtons, previousKeyState |-> FALSE,
     currentMouseState |-> FALSE, previousMouseState |-> FALSE]

\* Input::OpenGamepad(deviceIndex): SDL_GameControllerOpen may fail
OpenGamepad(in, deviceIndex, opened) ==
    [in EXCEPT !.gamepad = IF opened THEN deviceIndex ELSE NoGamepad]

\* Input::CloseGamepad
CloseGamepad(in) ==
    IF in.gamepad # NoGamepad
    THEN [in EXCEPT !.gamepad = NoGamepad, !.currentButtonState = NoButtons,
                    !.previousButtonState = NoButtons]
    ELSE in

Events ==
    { [type |-> t, which |-> d, button |-> "a"] :
        t \in {"CONTROLLERDEVICEADDED", "CONTROLLERDEVICEREMOVED"}, d \in Devices }
    \cup { [type |-> t, which |-> 0, button |-> b] :
        t \in {"CONTROLLERBUTTONDOWN", "CONTROLLERBUTTONUP"}, b \in Buttons }
    \cup { [type |-> t, which |-> 0, button |-> "a"] :
        t \in {"KEYDOWN", "KEYUP", "MOUSEBUTTONDOWN", "MOUSEBUTTONUP"} }

\* Input::ProcessEvent(event)
ProcessEvent(in, event, opened) ==
    CASE event.type = "CONTROLLERDEVICEADDED" ->
            IF in.gamepad = NoGamepad THEN OpenGamepad(in, event.which, opened)
            ELSE in
      [] event.type = "CONTROLLERDEVICEREMOVED" ->
            IF in.gamepad # NoGamepad /\ event.which = in.gamepad
            THEN CloseGamepad(in) ELSE in
      [] event.type = "CONTROLLERBUTTONDOWN" ->
            IF in.gamepad # NoGamepad
            THEN [in EXCEPT !.currentButtonState[event.button] = "down"] ELSE in
      [] event.type = "CONTROLLERBUTTONUP" ->
            IF in.gamepad # NoGamepad
            THEN [in EXCEPT !.currentButtonState[event.button] = "up"] ELSE in
      [] OTHER -> in

\* what SDL reports after the event: SDL_PollEvent keeps the keyboard array
\* and the mouse state up to date
Pumped(s, event) ==
    CASE event.type = "KEYDOWN" -> [s EXCEPT !.key = TRUE]
      [] event.type = "KEYUP" -> [s EXCEPT !.key = FALSE]
      [] event.type = "MOUSEBUTTONDOWN" -> [s EXCEPT !.mouse = TRUE]
      [] event.type = "MOUSEBUTTONUP" -> [s EXCEPT !.mouse = FALSE]
      [] OTHER -> s

\* Input::Prepare: memcpy(previousKeyState, currentKeyState)
Prepare(in, s) == [in EXCEPT !.previousKeyState = s.key]

\* Input::Update: the mouse state, and previousButtonState = currentButtonState
InputUpdate(in, s) ==
    [in EXCEPT !.previousMouseState = in.currentMouseState,
               !.currentMouseState = s.mouse,
               !.previousButtonState = in.currentButtonState]

\* Input::IsButtonPressed(button)
IsButtonPressed(in, button) ==
    in.gamepad # NoGamepad /\ in.currentButtonState[button] = "down"

\* Input::IsButtonJustPressed(button)
IsButtonJustPressed(in, button) ==
    LET currentPressed  == in.currentButtonState[button] = "down"
        previousPressed == in.previousButtonState[button] = "down"
    IN  in.gamepad # NoGamepad /\ currentPressed /\ ~previousPressed

NoAnswers == [b \in Buttons |-> "none"]

IdleLoop ==
    [pc |-> "idle", events |-> 0, down |-> {}, held |-> {}, pressed |-> {},
     just |-> NoAnswers]

InIdle ==
    /\ input = NewInput(NoGamepad)
    /\ sdl = [key |-> FALSE, mouse |-> FALSE]
    /\ loop = IdleLoop

CvIdle ==
    /\ cvBrush = [planes |-> << >>]
    /\ cvMesh = EmptyMesh
    /\ cvVertices = << >>
    /\ cvFaces = << >>
    /\ cvLog = << >>
    /\ cvPc = "idle"

LdIdle ==
    /\ inDoc = RawDoc("empty", << >>)
    /\ inEdit = NoEdit
    /\ fsFile = << >>
    /\ wLevelGeometry = << >>
    /\ wTextureCache = {}
    /\ wMap = EmptyMap
    /\ wWorldspawn = DefaultEntity
    /\ ldPath = "none"
    /\ ldResult = "none"
    /\ ldLog = << >>

TxIdle ==
    /\ txIn = [kind |-> "none", text |-> << >>]
    /\ txOut = << >>
    /\ txPc = "idle"

ClIdle ==
    /\ clBrushes = << >>
    /\ clMeshes = << >>
    /\ clPc = "idle"

\* a World just constructed, and a level file on disk
InitLoad ==
    /\ CamIdle
    /\ InIdle
    /\ inDoc \in Docs
    /\ inEdit \in {NoEdit} \cup (IF inDoc.entities = << >> THEN {}
                               ELSE { ed \in EditsOf(inDoc) : ValidEdit(ed) })
    /\ fsFile = Render(inDoc, inEdit)
    /\ wLevelGeometry = << >>
    /\ wTextureCache = {}
    /\ wMap = EmptyMap
    /\ wWorldspawn = DefaultEntity
    /\ ldPath = "none"
    /\ ldResult = "none"
    /\ ldLog = << >>
    /\ CvIdle
    /\ TxIdle
    /\ ClIdle

\* ldResult is how the last call on the World ended: LoadMap returned "true"
\* or "false", or was left by an exception ("throw") or a fault ("crash");
\* Unload leaves "unloaded".  After an exception or a fault nothing runs.
Alive == ldResult \in {"none", "true", "false", "unloaded"}

NoUb == [kind |-> "crash", value |-> 0]

FileAt(path) ==
    IF path = "level.map" THEN [exists |-> TRUE, content |-> fsFile] ELSE NoFile

\* World::LoadMap(path): "level.map" is fsFile, "missing.map" cannot be
\* opened.  What the build makes of a read past the end of a vector (ub) is
\* open only when the parse gets to such a read.
LoadMap(path) ==
    /\ Alive
    /\ \E base \in { LoadFromFile(FileAt(path), NoUb) } :
       \E ub \in (IF base.status = "crash" THEN UbOutcomes ELSE { NoUb }),
          texOk \in BOOLEAN :
          \E r \in { LoadMapFrom(TheWorld,
                                 IF ub = NoUb THEN base
                                 ELSE LoadFromFile(FileAt(path), ub),
                                 texOk) } :
              /\ wLevelGeometry' = r.w.levelGeometry
              /\ wTextureCache' = r.w.textureCache
              /\ wMap' = r.w.map
              /\ wWorldspawn' = r.w.worldspawn
              /\ ldResult' = r.result
              /\ ldLog' = r.log
    /\ ldPath' = path
    /\ UNCHANGED <<inDoc, inEdit, fsFile, cvVars, txVars, clVars, camVars, inVars>>

\* World::Unload()
UnloadWorld ==
    /\ Alive
    /\ ldResult # "none"
    /\ \E u \in { Unload(TheWorld) } :
           /\ wLevelGeometry' = u.levelGeometry
           /\ wTextureCache' = u.textureCache
           /\ wMap' = u.map
           /\ wWorldspawn' = u.worldspawn
    /\ ldResult' = "unloaded"
    /\ UNCHANGED <<inDoc, inEdit, fsFile, ldPath, ldLog, cvVars, txVars, clVars, camVars, inVars>>

NextLoad ==
    \/ \E path \in {"level.map", "missing.map"} : LoadMap(path)
    \/ UnloadWorld

SpecLoad == InitLoad /\ [][NextLoad]_vars

InitConv ==
    /\ CamIdle
    /\ InIdle
    /\ cvBrush \in ConvInputs
    /\ cvMesh = EmptyMesh
    /\ cvVertices = << >>
    /\ cvFaces = << >>
    /\ cvLog = << >>
    /\ cvPc = "ready"
    /\ LdIdle
    /\ TxIdle
    /\ ClIdle

\* BrushConverter::ConvertBrushToMesh(cvBrush)
Convert ==
    /\ cvPc = "ready"
    /\ LET r == ConvertBrushToMesh(cvBrush)
       IN  /\ cvMesh' = r.mesh
           /\ cvVertices' = r.vertices
           /\ cvFaces' = r.faces
           /\ cvLog' = r.log
    /\ cvPc' = "done"
    /\ UNCHANGED <<cvBrush, ldVars, txVars, clVars, camVars, inVars>>

NextConv == Convert

SpecConv == InitConv /\ [][NextConv]_vars

(***************************************************************************)
(* BrushConverter::ConvertBrushesToMeshes on lists of brushes              *)
(***************************************************************************)
\* a mutant: every mesh is pushed, empty or not
PushMesh_all(meshes, r) == Append(meshes, r.mesh)

\* if (!mesh.vertices.empty()) meshes.push_back(std::move(mesh)), where r is
\* what ConvertBrushToMesh did
PushMesh(meshes, r) ==
    IF r.mesh.vertices # << >> THEN Append(meshes, r.mesh) ELSE meshes

\* a mutant: the conversion remembers how many meshes it has made and
\* leaves as many planes out
ConvertNext_carry(st, brush) ==
    [meshes |-> PushMesh(st.meshes,
                         ConvertBrushToMesh([planes |->
                             SubSeq(brush.planes, 1,
                                    Len(brush.planes) - Len(st.meshes))]))]

\* the body of the loop of ConvertBrushesToMeshes
ConvertNext(st, brush) ==
    [meshes |-> PushMesh(st.meshes, ConvertBrushToMesh(brush))]

ConvertBrushesToMeshes(brushes) ==
    ForLoop(LAMBDA st, i : ConvertNext(st, brushes[i]),
            [meshes |-> << >>], 1, Len(brushes)).meshes

\* the level file of a worldspawn that holds the brushes of a list
ListDoc(brushes) ==
    [name |-> "list", style |-> "plain", raw |-> << >>,
     entities |-> << [classname |-> WORLDSPAWN, props |-> << >>,
                      brushes |-> [b \in 1..Len(brushes) |-> brushes[b].planes]] >>]

MaxBrushes == 3

\* a cube, a smaller box, a tetrahedron, three planes only, a box that is
\* inside out
ListBrushes ==
    { [planes |-> BoxPlanes(Near, Far)],
      [planes |-> BoxPlanes(Zero3, Far)],
           [planes |-> SubSeq(BoxPlanes(Zero3, Zero3), 1, 3) \o << DiagPlane(1) >>],
           [planes |-> SubSeq(BoxPlanes(Near, Far), 1, 3)],
           [planes |-> BoxPlanes(Far, Near)] }

InitList ==
    /\ CamIdle
    /\ InIdle
    /\ clBrushes \in UNION { [1..n -> ListBrushes] : n \in 0..MaxBrushes }
    /\ clMeshes = << >>
    /\ clPc = "ready"
    /\ inDoc = ListDoc(clBrushes)
    /\ inEdit = NoEdit
    /\ fsFile = Render(inDoc, inEdit)
    /\ wLevelGeometry = << >>
    /\ wTextureCache = {}
    /\ wMap = EmptyMap
    /\ wWorldspawn = DefaultEntity
    /\ ldPath = "none"
    /\ ldResult = "none"
    /\ ldLog = << >>
    /\ CvIdle
    /\ TxIdle

\* BrushConverter::ConvertBrushesToMeshes(clBrushes); the list is passed by
\* const reference
ConvertList ==
    /\ clPc = "ready"
    /\ clMeshes' = ConvertBrushesToMeshes(clBrushes)
    /\ clPc' = "done"
    /\ UNCHANGED <<clBrushes, cvVars, ldVars, txVars, camVars, inVars>>

\* the list is converted, and the level that holds it is loaded
NextList ==
    \/ ConvertList
    \/ LoadMap("level.map")

SpecList == InitList /\ [][NextList]_vars

(***************************************************************************)
(* The functions of MapLoader and Entity, each called on its own on the     *)
(* texts of a small alphabet                                               *)
(***************************************************************************)
\* the texts of at most n characters of an alphabet
TextsOver(alphabet, n) == UNION { [1..k -> alphabet] : k \in 0..n }

MaxBraceLen == 6

\* texts of braces, a letter and a blank
BraceInputs ==
    { [kind |-> "braces", text |-> t] :
        t \in TextsOver({"{", "}", "a", " "}, MaxBraceLen) }

MaxCommentLen == 7

\* texts of slashes, a letter and newlines
CommentInputs ==
    { [kind |-> "comments", text |-> t] :
        t \in TextsOver({"/", "a", NL}, MaxCommentLen) }

MaxLineLen == 7

\* lines of quotes, blanks and a letter
LineInputs ==
    { [kind |-> "line", text |-> t] :
        t \in TextsOver({"\"", " ", "a"}, MaxLineLen) }

MaxItems == 3

\* the pieces of an entity block: a property line "key" "value", a line
\* that holds a key only, a brush sub-block of plane lines between a line
\* { and a line }, the first plane line cut to its first `cut` tokens
PropItem(key, value) ==
    [t |-> "prop", key |-> key, value |-> value, planes |-> << >>, cut |-> 0]

KeyItem(key) ==
    [t |-> "key", key |-> key, value |-> << >>, planes |-> << >>, cut |-> 0]

BrushItem(planes, cut) ==
    [t |-> "brush", key |-> << >>, value |-> << >>, planes |-> planes, cut |-> cut]

TwoPlanes == << AxialPlane(Zero3, 1, -1), AxialPlane(Zero3, 2, 1) >>

PlaneLineLen == 21

ShortLineLen == 3

EntityItems ==
    { PropItem(k, v) : k \in {CLASSNAME, << "k" >>}, v \in {<< "a" >>, << "b", " ", "c" >>} }
    \cup { KeyItem(<< "k" >>) }
    \cup { BrushItem(TwoPlanes, PlaneLineLen), BrushItem(TwoPlanes, ShortLineLen) }

\* the lines of a piece
ItemLines(item) ==
    CASE item.t = "prop" ->
           << Quoted(item.key) \o << " " >> \o Quoted(item.value) >>
      [] item.t = "key" -> << Quoted(item.key) >>
      [] item.t = "brush" ->
           << << "{" >> >>
           \o [l \in 1..Len(item.planes) |->
                 Joined(IF l = 1 THEN SubSeq(PlaneTokens(item.planes[l]), 1, item.cut)
                        ELSE PlaneTokens(item.planes[l]), << " " >>)]
           \o << << "}" >> >>

\* the text of an entity block: the lines of its pieces
BlockText(items) ==
    Joined(Concat([k \in 1..Len(items) |-> ItemLines(items[k])]), << NL >>)

EntityInputs ==
    { [kind |-> "entity", text |-> BlockText(items), items |-> items] :
        items \in UNION { [1..n -> EntityItems] : n \in 0..MaxItems } }

\* a brush sub-block by the lines its braces are on: "lines" has each brace
\* on a line of its own, "open" has the first plane after the opening
\* brace, "close" has the closing brace after the last plane, "one" is { }
LayoutItem(layout, planes) ==
    [t |-> "brush", layout |-> layout, key |-> << >>, value |-> << >>,
     planes |-> planes]

LayoutItems ==
    { LayoutItem(layout, TwoPlanes) : layout \in {"lines", "open", "close"} }
    \cup { LayoutItem("one", << >>) }
    \cup { [t |-> "prop", layout |-> "line", key |-> << "k" >>, value |-> << "a" >>,
            planes |-> << >>] }

PlaneText(plane) == Joined(PlaneTokens(plane), << " " >>)

LayoutLines(item) ==
    LET planes == [l \in 1..Len(item.planes) |-> PlaneText(item.planes[l])]
    IN  CASE item.t = "prop" ->
               << Quoted(item.key) \o << " " >> \o Quoted(item.value) >>
          [] item.layout = "lines" -> << << "{" >> >> \o planes \o << << "}" >> >>
          [] item.layout = "open" ->
               << << "{", " " >> \o planes[1] >> \o Tail(planes) \o << << "}" >> >>
          [] item.layout = "close" ->
               << << "{" >> >> \o SubSeq(planes, 1, Len(planes) - 1)
               \o << planes[Len(planes)] \o << " ", "}" >> >>
          [] item.layout = "one" -> << << "{", " ", "}" >> >>

LayoutInputs ==
    { [kind |-> "brushes",
       text |-> Joined(Concat([k \in 1..Len(items) |-> LayoutLines(items[k])]), << NL >>),
       items |-> items] :
        items \in UNION { [1..n -> LayoutItems] : n \in 0..MaxItems } }

MaxValueLen == 5

\* the default the caller passes: no number that the texts can hold
DefaultNumber == 7

DefaultString == << "d" >>

DefaultVector == << DefaultNumber, DefaultNumber, DefaultNumber >>

KEY == << "k" >>

\* an entity with one property, and one with none; the values are texts of
\* a digit, a minus sign, a blank and a letter
ValueInputs ==
    { [kind |-> "value", text |-> t,
       entity |-> [DefaultEntity EXCEPT !.properties = { << k, t >> }]] :
        t \in TextsOver({"1", "-", " ", "q"}, MaxValueLen), k \in {KEY, ORIGIN} }
    \cup { [kind |-> "value", text |-> << >>, entity |-> DefaultEntity] }

TextInputs ==
    BraceInputs \cup CommentInputs \cup LineInputs \cup EntityInputs \cup LayoutInputs
    \cup ValueInputs

InitText ==
    /\ CamIdle
    /\ InIdle
    /\ txIn \in TextInputs
    /\ txOut = << >>
    /\ txPc = "ready"
    /\ CvIdle
    /\ LdIdle
    /\ ClIdle

Called(name) ==
    /\ txPc = "ready"
    /\ txPc' = name
    /\ UNCHANGED <<txIn, cvVars, ldVars, clVars, camVars, inVars>>

\* MapLoader::SplitIntoBlocks(text, '{', '}')
RunSplitIntoBlocks ==
    /\ txIn.kind = "braces"
    /\ txOut' = SplitIntoBlocks(txIn.text, "{", "}")
    /\ Called("SplitIntoBlocks")

\* MapLoader::LoadFromFile on a file that holds the text
RunLoadFromFile ==
    /\ txIn.kind = "braces"
    /\ txOut' = LoadFromFile([exists |-> TRUE, content |-> txIn.text], NoUb)
    /\ Called("LoadFromFile")

\* MapLoader::RemoveComments(text)
RunRemoveComments ==
    /\ txIn.kind = "comments"
    /\ txOut' = RemoveComments(txIn.text)
    /\ Called("RemoveComments")

\* MapLoader::Tokenize(line)
RunTokenize ==
    /\ txIn.kind = "line"
    /\ txOut' = Tokenize(txIn.text)
    /\ Called("Tokenize")

\* MapLoader::ParseEntity(block)
RunParseEntity ==
    /\ txIn.kind \in {"entity", "brushes"}
    /\ txOut' = ParseEntity(txIn.text, NoUb)
    /\ Called("ParseEntity")

\* the accessors are const: the entity stays as it is
CalledOnEntity(name, key) ==
    /\ txIn.kind = "value"
    /\ \A p \in txIn.entity.properties : p[1] = key
    /\ Called(name)

\* entity.GetInt("k", 7)
RunGetInt ==
    /\ CalledOnEntity("GetInt", KEY)
    /\ txOut' = GetInt(txIn.entity, KEY, DefaultNumber)

\* entity.GetFloat("k", 7.0f)
RunGetFloat ==
    /\ CalledOnEntity("GetFloat", KEY)
    /\ txOut' = GetFloat(txIn.entity, KEY, DefaultNumber)

\* entity.GetString("k", "d")
RunGetString ==
    /\ CalledOnEntity("GetString", KEY)
    /\ txOut' = GetString(txIn.entity, KEY, DefaultString)

\* entity.GetVector3("k", vec3(7))
RunGetVector3 ==
    /\ CalledOnEntity("GetVector3", KEY)
    /\ txOut' = GetVector3(txIn.entity, KEY, DefaultVector)

\* entity.GetOrigin()
RunGetOrigin ==
    /\ CalledOnEntity("GetOrigin", ORIGIN)
    /\ txOut' = GetOrigin(txIn.entity)

NextText ==
    \/ RunGetInt
    \/ RunGetFloat
    \/ RunGetString
    \/ RunGetVector3
    \/ RunGetOrigin
    \/ RunRemoveComments
    \/ RunParseEntity
    \/ RunTokenize
    \/ RunSplitIntoBlocks
    \/ RunLoadFromFile

SpecText == InitText /\ [][NextText]_vars

(***************************************************************************)
(* The loops of SplitIntoBlocks and ParseEntity, one round at a time       *)
(***************************************************************************)
MaxScanLen == 4

\* texts of braces, a letter and a blank for SplitIntoBlocks
ScanTexts == TextsOver({"{", "}", "a", " "}, MaxScanLen)

\* blocks of lines of braces and parentheses for ParseEntity
ScanBlocks == TextsOver({"{", "}", "(", NL}, MaxScanLen)

\* nothing is called yet
InitScan ==
    /\ CamIdle
    /\ InIdle
    /\ txIn = [kind |-> "none", text |-> << >>]
    /\ txOut = << >>
    /\ txPc = "ready"
    /\ CvIdle
    /\ LdIdle
    /\ ClIdle

ScanUnchanged == UNCHANGED <<txIn, cvVars, ldVars, clVars, camVars, inVars>>

\* SplitIntoBlocks is entered with a text: blocks, depth = 0,
\* blockStart = 0, i = 0; read lists the characters read by content[i]
SplitEnter ==
    /\ txPc = "ready"
    /\ \E t \in ScanTexts : txIn' = [kind |-> "braces", text |-> t]
    /\ UNCHANGED <<cvVars, ldVars, clVars, camVars, inVars>>
    /\ txOut' = [i |-> 1, read |-> << >>,
                 st |-> [blocks |-> << >>, depth |-> 0, blockStart |-> 1]]
    /\ txPc' = "SplitIntoBlocks.for"

\* one round of the for loop of SplitIntoBlocks
SplitRound ==
    /\ txPc = "SplitIntoBlocks.for"
    /\ txOut.i <= Len(txIn.text)
    /\ txOut' = [i |-> txOut.i + 1,
                 read |-> Append(txOut.read, txOut.i),
                 st |-> SplitIntoBlocksStep(txIn.text, "{", "}", txOut.st, txOut.i)]
    /\ UNCHANGED txPc
    /\ ScanUnchanged

\* i = content.size(): return blocks
SplitReturn ==
    /\ txPc = "SplitIntoBlocks.for"
    /\ txOut.i > Len(txIn.text)
    /\ txPc' = "SplitIntoBlocks.done"
    /\ UNCHANGED txOut
    /\ ScanUnchanged

\* ParseEntity is entered with a block: the stream is at its first line
EntityEnter ==
    /\ txPc = "ready"
    /\ \E t \in ScanBlocks : txIn' = [kind |-> "lines", text |-> t]
    /\ UNCHANGED <<cvVars, ldVars, clVars, camVars, inVars>>
    /\ txOut' = [lines |-> GetLines(txIn'.text), i |-> 1,
                 st |-> [status |-> "ok", next |-> 1, entity |-> DefaultEntity,
                         log |-> << >>],
                 scan |-> [next |-> 1, depth |-> 0, block |-> << >>]]
    /\ txPc' = "ParseEntity.while"

\* one round of the outer loop of ParseEntity: getline gave line i
EntityRound ==
    /\ txPc = "ParseEntity.while"
    /\ txOut.i <= Len(txOut.lines)
    /\ LET line == Trim(txOut.lines[txOut.i])
       IN  IF line # << >> /\ line[1] = "{"
           THEN /\ txOut' = [txOut EXCEPT
                        !.scan = [next |-> txOut.i + 1, depth |-> 1,
                                  block |-> SubSeq(line, 2, Len(line))]]
                /\ txPc' = "ParseEntity.scan"
           ELSE /\ txOut' = [txOut EXCEPT
                        !.i = @ + 1,
                        !.st = IF line # << >> /\ line[1] = "\""
                               THEN PropertyLine(@, Tokenize(line)) ELSE @]
                /\ UNCHANGED txPc
    /\ ScanUnchanged

\* one round of the inner loop: braceDepth > 0 and getline gave a line
ScanRound ==
    /\ txPc = "ParseEntity.scan"
    /\ txOut.scan.depth > 0
    /\ txOut.scan.next <= Len(txOut.lines)
    /\ txOut' = [txOut EXCEPT
                    !.scan = ScanBrushStep(txOut.lines, @, txOut.scan.next)]
    /\ UNCHANGED txPc
    /\ ScanUnchanged

\* the inner loop ends: braceDepth is 0 or the stream is exhausted; the
\* brush is parsed and pushed
ScanEnd ==
    /\ txPc = "ParseEntity.scan"
    /\ txOut.scan.depth <= 0 \/ txOut.scan.next > Len(txOut.lines)
    /\ \E r \in { ParseBrush(txOut.scan.block, NoUb) } :
           txOut' = [txOut EXCEPT !.i = txOut.scan.next,
                                  !.st = AddBrush(@, txOut.scan.next, r)]
    /\ txPc' = "ParseEntity.while"
    /\ ScanUnchanged

\* getline fails: return entity
EntityReturn ==
    /\ txPc = "ParseEntity.while"
    /\ txOut.i > Len(txOut.lines)
    /\ txPc' = "ParseEntity.done"
    /\ UNCHANGED txOut
    /\ ScanUnchanged

NextScan ==
    \/ SplitEnter
    \/ SplitRound
    \/ SplitReturn
    \/ EntityEnter
    \/ EntityRound
    \/ ScanRound
    \/ ScanEnd
    \/ EntityReturn

\* a call that is running goes on running
SpecScan == InitScan /\ [][NextScan]_vars /\ WF_vars(NextScan)

(***************************************************************************)
(* Claims about the converter, checked under SpecConv                      *)
(***************************************************************************)
Range(seq) == { seq[i] : i \in 1..Len(seq) }

\* the plane is the axial half-space sign * x_axis <= distance
IsAxial(plane, axis, sign) ==
    ~plane.nan /\ plane.norm2 = 1 /\ plane.normal = Scale3(sign, UnitVec(axis))

\* six planes, one for each of -x, -y, -z, +x, +y, +z, in any order, that
\* bound a box with lo < hi on every axis
IsAxialBox(brush) ==
    /\ Len(brush.planes) = 6
    /\ \A axis \in 1..3 : \A sign \in {-1, 1} :
          \E i \in 1..6 : IsAxial(brush.planes[i], axis, sign)
    /\ \A i, j \in 1..6 :
          \A axis \in 1..3 :
             IsAxial(brush.planes[i], axis, -1) /\ IsAxial(brush.planes[j], axis, 1)
                => -brush.planes[i].distance < brush.planes[j].distance

\* the corners of an axial box: on each axis the low or the high bound
BoxCorners(brush) ==
    LET lo(axis) == -(CHOOSE p \in Range(brush.planes) : IsAxial(p, axis, -1)).distance
        hi(axis) == (CHOOSE p \in Range(brush.planes) : IsAxial(p, axis, 1)).distance
    IN  { IntPoint(<< x, y, z >>) :
            x \in {lo(1), hi(1)}, y \in {lo(2), hi(2)}, z \in {lo(3), hi(3)} }

\* dot(normal, v) - distance <= 0.01, as a comparison of exact values; false
\* for a plane whose normal is NaN
WithinHalfSpace(plane, v) ==
    /\ ~plane.nan
    /\ LET t == PlaneDist(plane, v)
       IN  t <= 0 \/ EpsDen * EpsDen * t * t <= v.w * v.w * plane.norm2

\* |dot(normal, v) - distance| < 0.01
LiesOn(plane, v) ==
    /\ ~plane.nan
    /\ LET t == PlaneDist(plane, v)
       IN  EpsDen * EpsDen * t * t < v.w * v.w * plane.norm2

Positions(vertexSeq) == { vertexSeq[i].position : i \in 1..Len(vertexSeq) }

\* C1: a valid axis-aligned box of 6 planes, in whatever order they are
\* declared, converts to exactly 8 distinct vertex positions (its corners),
\* 6 faces of 4 vertices each (one per plane, on that plane, with its normal)
\* and 12 triangles.
C1_BoxEightSixTwelve ==
    (cvPc = "done" /\ IsAxialBox(cvBrush)) =>
        /\ Len(cvVertices) = 8
        /\ Range(cvVertices) = BoxCorners(cvBrush)
        /\ Cardinality(Range(cvVertices)) = 8
        /\ Len(cvFaces) = 6
        /\ \A i \in 1..6 :
              /\ Len(cvFaces[i]) = 4
              /\ Cardinality(Positions(cvFaces[i])) = 4
              /\ \A k \in 1..4 :
                    /\ cvFaces[i][k].normal = cvBrush.planes[i].normal
                    /\ LiesOn(cvBrush.planes[i], cvFaces[i][k].position)
        /\ Len(cvMesh.indices) = 3 * 12
        /\ Positions(cvMesh.vertices) = BoxCorners(cvBrush)

\* a box whose planes are declared top first and not in -x,-y,-z,+x,+y,+z
\* order was converted
C1_Witness ==
    /\ cvPc = "done"
    /\ IsAxialBox(cvBrush)
    /\ IsAxial(cvBrush.planes[1], 3, 1)
    /\ IsAxial(cvBrush.planes[2], 1, -1)
    /\ IsAxial(cvBrush.planes[3], 2, 1)
    /\ Len(cvMesh.indices) = 36

\* the kept vertices that lie on plane i of the brush
OnFace(i) == { v \in Range(cvVertices) : LiesOn(cvBrush.planes[i], v) }

SomeVertexInside(brush) ==
    \E i, j, k \in 1..Len(brush.planes) :
        /\ i < j /\ j < k
        /\ LET v == IntersectThreePlanes(brush.planes[i], brush.planes[j],
                                         brush.planes[k])
           IN  /\ ~v.nan
               /\ \A m \in 1..Len(brush.planes) :
                     brush.planes[m].nan \/ WithinHalfSpace(brush.planes[m], v)

C7_Original ==
    (/\ cvPc = "done"
     /\ Len(cvBrush.planes) >= 4
     /\ \E i \in 1..Len(cvBrush.planes) : Cardinality(OnFace(i)) < 3)
        => cvMesh = EmptyMesh /\ Len(cvLog) >= 1

RECURSIVE TriangleSum(_)
TriangleSum(i) ==
    IF i = 0 THEN 0
    ELSE TriangleSum(i - 1)
         + (IF Cardinality(OnFace(i)) >= 3 THEN Cardinality(OnFace(i)) - 2 ELSE 0)

\* C7, amended: with at least 4 planes and some kept vertex, a plane with
\* fewer than 3 kept vertices on it contributes no face and no triangle, and
\* no warning; the other planes still contribute theirs; the Mesh is empty,
\* with a warning, only when every plane's face collapses.
C7_CollapsedFaceSkipped ==
    (cvPc = "done" /\ Len(cvBrush.planes) >= 4 /\ cvVertices # << >>) =>
        /\ Len(cvFaces) = Len(cvBrush.planes)
        /\ \A i \in 1..Len(cvBrush.planes) :
              IF Cardinality(OnFace(i)) < 3
              THEN cvFaces[i] = << >>
              ELSE Positions(cvFaces[i]) = OnFace(i)
        /\ Len(cvMesh.vertices) = 3 * TriangleSum(Len(cvBrush.planes))
        /\ cvMesh = EmptyMesh <=>
              \A i \in 1..Len(cvBrush.planes) : Cardinality(OnFace(i)) < 3
        /\ IF cvMesh = EmptyMesh THEN Len(cvLog) = 1 ELSE cvLog = << >>

\* one plane's face collapsed and the brush still got its mesh
C7_Witness ==
    /\ cvPc = "done"
    /\ Len(cvBrush.planes) >= 4
    /\ \E i \in 1..Len(cvBrush.planes) : Cardinality(OnFace(i)) < 3
    /\ cvMesh # EmptyMesh
    /\ cvLog = << >>

\* an axial box whose three sides are equal
IsAxialCube(brush) ==
    /\ IsAxialBox(brush)
    /\ \E side \in 1..(2 * MaxCoord + 2) :
          \A i, j \in 1..6 : \A axis \in 1..3 :
             IsAxial(brush.planes[i], axis, -1) /\ IsAxial(brush.planes[j], axis, 1)
                => brush.planes[i].distance + brush.planes[j].distance = side

\* C9 as stated: the Mesh of an axis-aligned cube has 8 entries in its vertex
\* list and 36 entries in its index list.
C9_Original ==
    (cvPc = "done" /\ IsAxialCube(cvBrush)) =>
        Len(cvMesh.vertices) = 8 /\ Len(cvMesh.indices) = 36

\* C9, amended: the Mesh of an axis-aligned cube has 36 entries in its
\* vertex list, one per triangle corner, with 8 distinct positions among
\* them, and its index list is 0, 1, ..., 35: 12 triangles.
C9_CubeMesh ==
    (cvPc = "done" /\ IsAxialCube(cvBrush)) =>
        /\ Len(cvMesh.vertices) = 36
        /\ Cardinality(Positions(cvMesh.vertices)) = 8
        /\ cvMesh.indices = [i \in 1..36 |-> i - 1]

\* the cube from (-MaxCoord)^3 to (MaxCoord)^3 was converted
C9_Witness ==
    /\ cvPc = "done"
    /\ IsAxialCube(cvBrush)
    /\ BoxCorners(cvBrush)
         = { IntPoint(c) : c \in {-MaxCoord, MaxCoord} \X {-MaxCoord, MaxCoord}
                                  \X {-MaxCoord, MaxCoord} }
    /\ Len(cvMesh.vertices) = 36

(***************************************************************************)
(* The loader: what World::LoadMap and MapLoader::LoadFromFile make of a    *)
(* level file                                                              *)
(***************************************************************************)
\* LoadMap was called on the level file and nothing was called since
CalledOnLevel == ldPath = "level.map" /\ ldResult \in {"true", "false", "throw", "crash"}

\* LoadMap returned to its caller and nothing was called since
Returned == ldResult \in {"true", "false"}

\* the Entity a document entity stands for
DocEntity(e) ==
    [classname |-> e.classname,
     properties |-> { e.props[k] : k \in 1..Len(e.props) },
     brushes |-> [b \in 1..Len(e.brushes) |-> [planes |-> e.brushes[b]]]]

\* the Map holds the entities of the document, but for the brush of the
\* damaged line
OthersIntact ==
    /\ Len(wMap.entities) = Len(inDoc.entities)
    /\ \A e \in 1..Len(inDoc.entities) :
          /\ wMap.entities[e].classname = inDoc.entities[e].classname
          /\ wMap.entities[e].properties = DocEntity(inDoc.entities[e]).properties
          /\ Len(wMap.entities[e].brushes) = Len(inDoc.entities[e].brushes)
          /\ \A b \in 1..Len(inDoc.entities[e].brushes) :
                << e, b >> # << inEdit.ent, inEdit.brush >>
                => wMap.entities[e].brushes[b].planes = inDoc.entities[e].brushes[b]

\* the warnings of ParsePlane in the log
PlaneWarnings ==
    Cardinality({ k \in 1..Len(ldLog) : ldLog[k] = Warning("Invalid plane format") })

DamagedBrush == wMap.entities[inEdit.ent].brushes[inEdit.brush].planes

\* C3 as stated: one plane line of the file lacks one token of the grammar,
\* whichever: the load returns a Map in which all the other entities and
\* brushes are those of the undamaged file, and exactly one warning is logged.
C3_OneTokenMissing ==
    (inEdit.kind = "drop" /\ CalledOnLevel)
    => /\ Returned
       /\ OthersIntact
       /\ PlaneWarnings = 1

\* a line without its first coordinate ends the load by an exception
C3_Witness ==
    /\ inEdit.kind = "drop" /\ inEdit.pos = 2
    /\ CalledOnLevel
    /\ ldResult = "throw"

\* C4 as stated: a plane line that ParsePlane rejects (fewer than 15 tokens)
\* adds no Plane: the brush has one plane fewer than it has plane lines, and
\* no plane with zero normal and zero distance.
C4_RejectedLineNoPlane ==
    (inEdit.kind = "cut" /\ inEdit.pos < MinTokens /\ CalledOnLevel /\ ldResult = "true")
    => /\ Len(DamagedBrush)
            = Len(inDoc.entities[inEdit.ent].brushes[inEdit.brush]) - 1
       /\ \A k \in 1..Len(DamagedBrush) :
             ~(DamagedBrush[k].normal = Zero3 /\ DamagedBrush[k].distance = 0)

\* the brush of a rejected line has as many planes as lines, a default
\* Plane among them
C4_Witness ==
    /\ inEdit.kind = "cut" /\ inEdit.pos < MinTokens
    /\ CalledOnLevel /\ ldResult = "true"
    /\ PlaneWarnings = 1
    /\ Len(DamagedBrush) = Len(inDoc.entities[inEdit.ent].brushes[inEdit.brush])
    /\ DamagedBrush[inEdit.line] = DefaultPlane

\* C5 as stated: a plane line with all its tokens, one of which is not a
\* number where a number is expected, is rejected with a warning; the load
\* returns with all the other planes, brushes and entities, and no
\* exception leaves it.
C5_NonNumericRejected ==
    (inEdit.kind = "junk" /\ CalledOnLevel)
    => /\ Returned
       /\ OthersIntact
       /\ PlaneWarnings = 1

\* the load of a file with a non-numeric coordinate is left by an exception
C5_Witness ==
    /\ inEdit.kind = "junk"
    /\ CalledOnLevel
    /\ ldResult = "throw"
    /\ ldLog = << >>

\* C8: a well-formed file gives one Entity per top-level block in source
\* order, one Brush per brush block and one Plane per plane line, with the
\* classname, properties and planes that are written; the two-entity file
\* gives 2 entities, entity 0 is worldspawn with 1 brush, and the origin of
\* the entity found for info_player_start is (0,0,32).
C8_WellFormedParse ==
    (inEdit = NoEdit /\ inDoc.entities # << >> /\ CalledOnLevel)
    => /\ ldResult = "true"
       /\ wMap.entities = [e \in 1..Len(inDoc.entities) |-> DocEntity(inDoc.entities[e])]
       /\ wMap.worldspawn = wMap.entities[1]
       /\ inDoc = ScenarioDoc
          => /\ Len(wMap.entities) = 2
             /\ wMap.entities[1].classname = WORLDSPAWN
             /\ Len(wMap.entities[1].brushes) = 1
             /\ Len(wMap.entities[1].brushes[1].planes) = 6
             /\ FindEntityByClass(wMap, PLAYERSTART) = 2
             /\ GetOrigin(wMap.entities[FindEntityByClass(wMap, PLAYERSTART)])
                  = << 0, 0, 32 >>

C8_Witness ==
    /\ inDoc = ScenarioDoc /\ inEdit = NoEdit
    /\ CalledOnLevel /\ ldResult = "true"
    /\ Len(wMap.entities) = 2
    /\ GetOrigin(wMap.entities[2]) = << 0, 0, 32 >>

DepthAt(text, i) ==
    Cardinality({ j \in 1..i : text[j] = "{" })
    - Cardinality({ j \in 1..i : text[j] = "}" })

Balanced(text) ==
    /\ DepthAt(text, Len(text)) = 0
    /\ \A i \in 1..Len(text) : DepthAt(text, i) >= 0

\* the top-level regions: <<i, j>> with the opening brace at i, at depth 0,
\* and j the first position after it where the depth is 0 again
Regions(text) ==
    { r \in (1..Len(text)) \X (1..Len(text)) :
        /\ r[1] < r[2]
        /\ text[r[1]] = "{"
        /\ DepthAt(text, r[1] - 1) = 0
        /\ DepthAt(text, r[2]) = 0
        /\ \A k \in r[1]..(r[2] - 1) : DepthAt(text, k) > 0 }

\* a set of regions as a sequence, in source order
RECURSIVE InOrder(_)
InOrder(S) ==
    IF S = {} THEN << >>
    ELSE LET m == CHOOSE r \in S : \A q \in S : r[1] <= q[1]
         IN  << m >> \o InOrder(S \ {m})

\* a text without the whitespace around it
Trimmed(str) ==
    LET black == { i \in 1..Len(str) : ~IsWhitespace(str[i]) }
    IN  IF black = {} THEN << >>
        ELSE SubSeq(str, CHOOSE i \in black : \A j \in black : i <= j,
                         CHOOSE i \in black : \A j \in black : i >= j)

\* the trimmed contents of the top-level regions, in source order
RegionContents(text) ==
    LET regions == InOrder(Regions(text))
    IN  [i \in 1..Len(regions) |->
            Trimmed(SubSeq(text, regions[i][1] + 1, regions[i][2] - 1))]

NotEmpty(str) == str # << >>

\* C11 as stated: on a text with balanced braces SplitIntoBlocks returns one
\* block per top-level region, the trimmed content of the region, in source
\* order, and LoadFromFile one entity per region, empty regions included.
C11_Original ==
    Balanced(txIn.text)
    => /\ txPc = "SplitIntoBlocks" => txOut = RegionContents(txIn.text)
       /\ txPc = "LoadFromFile"
          => Len(txOut.map.entities) = Cardinality(Regions(txIn.text))

\* C11: on a text with balanced braces SplitIntoBlocks returns one block per
\* top-level region whose content is not empty or whitespace only: the
\* trimmed content of the region, nested braces kept, in source order; and
\* LoadFromFile returns one entity per such region.
C11_BlockPerNonEmptyRegion ==
    Balanced(txIn.text)
    => /\ txPc = "SplitIntoBlocks"
          => txOut = SelectSeq(RegionContents(txIn.text), NotEmpty)
       /\ txPc = "LoadFromFile"
          => /\ txOut.status = "ok"
             /\ Len(txOut.map.entities)
                  = Len(SelectSeq(RegionContents(txIn.text), NotEmpty))

\* two regions, the second of a blank only: one block
C11_Witness ==
    /\ txPc = "SplitIntoBlocks"
    /\ txIn.text = << "{", "a", "}", "{", " ", "}" >>
    /\ Balanced(txIn.text)
    /\ Cardinality(Regions(txIn.text)) = 2
    /\ txOut = << << "a" >> >>

\* a text with the character at p blanked
Repaired(text, p) == [text EXCEPT ![p] = " "]

\* the stray closing braces of a text: a closing brace at depth 0 without
\* which the text is balanced
StrayClose(text) ==
    { p \in 1..Len(text) :
        /\ text[p] = "}"
        /\ DepthAt(text, p - 1) = 0
        /\ Balanced(Repaired(text, p)) }

\* the opening braces at depth 0, after a balanced text, that are never
\* closed: the block they open runs to the end of the text
Unclosed(text) ==
    { p \in 1..Len(text) :
        /\ text[p] = "{"
        /\ Balanced(SubSeq(text, 1, p - 1))
        /\ \A k \in p..Len(text) : DepthAt(text, k) > 0 }

\* C12: on a text with an unbalanced brace SplitIntoBlocks returns the
\* complete top-level regions with content, in source order: those before
\* an opening brace that is never closed, those before and after a stray
\* closing brace at depth 0.
C12_CompleteRegionsKept ==
    txPc = "SplitIntoBlocks"
    => /\ \A p \in Unclosed(txIn.text) :
             txOut = SelectSeq(RegionContents(SubSeq(txIn.text, 1, p - 1)), NotEmpty)
       /\ \A p \in StrayClose(txIn.text) :
             txOut = SelectSeq(RegionContents(Repaired(txIn.text, p)), NotEmpty)

\* what holds of an opening brace that is never closed: the regions before
\* it are returned, and nothing of what follows it
UnclosedKeepsEarlier ==
    txPc = "SplitIntoBlocks"
    => \A p \in Unclosed(txIn.text) :
          txOut = SelectSeq(RegionContents(SubSeq(txIn.text, 1, p - 1)), NotEmpty)

\* a stray closing brace, then a complete region: no block is returned
C12_Witness ==
    /\ txPc = "SplitIntoBlocks"
    /\ txIn.text = << "}", "{", "a", "}" >>
    /\ StrayClose(txIn.text) = {1}
    /\ RegionContents(Repaired(txIn.text, 1)) = << << "a" >> >>
    /\ txOut = << >>

\* the newlines of a text, and its lines: line i lies between newline i - 1
\* and newline i
Newlines(text) == { i \in 1..Len(text) : text[i] = NL }

LineOf(text, i) ==
    LET before == { p \in Newlines(text) :
                      Cardinality({ q \in Newlines(text) : q <= p }) = i - 1 }
        after  == { p \in Newlines(text) :
                      Cardinality({ q \in Newlines(text) : q <= p }) = i }
        from   == IF before = {} THEN 1 ELSE (CHOOSE p \in before : TRUE) + 1
        to     == IF after = {} THEN Len(text) ELSE (CHOOSE p \in after : TRUE) - 1
    IN  SubSeq(text, from, to)

\* the places of a text where a // starts
Slashes(text) ==
    { i \in 1..(Len(text) - 1) : text[i] = "/" /\ text[i + 1] = "/" }

\* a line cut at its first //
CutAtComment(line) ==
    IF Slashes(line) = {} THEN line
    ELSE SubSeq(line, 1, (CHOOSE i \in Slashes(line) :
                             \A j \in Slashes(line) : i <= j) - 1)

\* C14: RemoveComments keeps the newlines of its input, its i-th output
\* line is the i-th input line cut at the line's first //, its output has
\* no //, and RemoveComments leaves its own output as it is.
C14_CommentsCutPerLine ==
    txPc = "RemoveComments"
    => /\ Cardinality(Newlines(txOut)) = Cardinality(Newlines(txIn.text))
       /\ \A i \in 1..(Cardinality(Newlines(txIn.text)) + 1) :
             LineOf(txOut, i) = CutAtComment(LineOf(txIn.text, i))
       /\ Slashes(txOut) = {}
       /\ RemoveComments(txOut) = txOut

\* a line with a slash before its comment and a comment that holds a //
C14_Witness ==
    /\ txPc = "RemoveComments"
    /\ txIn.text = << "/", "a", "/", "/", "/", NL, "a" >>
    /\ txOut = << "/", "a", NL, "a" >>

\* the least element of a set of numbers, or the default if it is empty
FirstOf(S, default) ==
    IF S = {} THEN default ELSE CHOOSE i \in S : \A j \in S : i <= j

\* the tokens of a line from position p on, read off the line: blanks are
\* skipped; a quote opens a token that runs to the next quote, or to the
\* end of the line; another character opens a token that runs up to the
\* next blank, and up to the next quote if a quote ends a run
RECURSIVE TokensFrom(_, _, _)
TokensFrom(line, p, quoteEndsRun) ==
    IF p > Len(line) THEN << >>
    ELSE IF IsWhitespace(line[p]) THEN TokensFrom(line, p + 1, quoteEndsRun)
    ELSE LET last ==
               IF line[p] = "\""
               THEN FirstOf({ q \in (p + 1)..Len(line) : line[q] = "\"" }, Len(line))
               ELSE FirstOf({ q \in (p + 1)..Len(line) :
                                \/ IsWhitespace(line[q])
                                \/ quoteEndsRun /\ line[q] = "\"" },
                            Len(line) + 1) - 1
         IN  << SubSeq(line, p, last) >> \o TokensFrom(line, last + 1, quoteEndsRun)

\* C15 as stated: the tokens are the maximal runs of characters that are no
\* whitespace, but a run that a quote opens extends to the next quote (or
\* to the end of the line), whitespace and both quotes included.
C15_Original ==
    txPc = "Tokenize"
    => /\ txOut = TokensFrom(txIn.text, 1, FALSE)
       /\ \A k \in 1..Len(txOut) : txOut[k] # << >>

\* C15: the tokens are, in order, the runs of characters that are neither
\* whitespace nor a quote, and the quoted texts: a quote ends the run before
\* it and opens a token that extends to the next quote, whitespace and both
\* quotes included, or to the end of the line; no token is empty.
C15_QuoteEndsRun ==
    txPc = "Tokenize"
    => /\ txOut = TokensFrom(txIn.text, 1, TRUE)
       /\ \A k \in 1..Len(txOut) : txOut[k] # << >>

\* a quote inside a run, and a line that ends inside an open quote
C15_Witness ==
    /\ txPc = "Tokenize"
    /\ txIn.text = << "a", "\"", "a", " ", "\"", "a", "\"" >>
    /\ txOut = << << "a" >>, << "\"", "a", " ", "\"" >>, << "a" >>, << "\"" >> >>

\* the property lines of the block with the key, by position
LinesOfKey(key) ==
    { k \in 1..Len(txIn.items) : txIn.items[k].t = "prop" /\ txIn.items[k].key = key }

\* the value of the last property line with the key
LastValue(key) ==
    txIn.items[CHOOSE k \in LinesOfKey(key) : \A j \in LinesOfKey(key) : j <= k].value

RECURSIVE ItemsOf(_, _)
ItemsOf(items, t) ==
    IF items = << >> THEN << >>
    ELSE (IF items[1].t = t THEN << items[1] >> ELSE << >>) \o ItemsOf(Tail(items), t)

\* the entity has one Brush per brush sub-block, of the planes of the
\* sub-block in source order, and the properties of the property lines
BrushesAsWritten ==
    LET written == ItemsOf(txIn.items, "brush")
    IN  /\ txOut.status = "ok"
        /\ Len(txOut.entity.brushes) = Len(written)
        /\ \A b \in 1..Len(written) :
              txOut.entity.brushes[b].planes = written[b].planes
        /\ txOut.entity.properties
             = { << it.key, it.value >> :
                   it \in { txIn.items[k] : k \in LinesOfKey(<< "k" >>) } }

\* C17: a line starting with { opens a brush sub-block that extends to the
\* brace that matches it, wherever on the lines the braces are; each
\* sub-block yields one Brush of the plane lines it encloses, in source
\* order, and what follows its closing brace is parsed as usual.
C17_BrushPerSubBlock ==
    (txPc = "ParseEntity" /\ txIn.kind = "brushes") => BrushesAsWritten

\* what holds: sub-blocks whose closing brace is on a line of its own, the
\* opening brace on a line of its own or before the first plane
BracesOnOwnLines ==
    (/\ txPc = "ParseEntity"
     /\ txIn.kind = "brushes"
     /\ \A k \in 1..Len(txIn.items) : txIn.items[k].layout \in {"line", "lines", "open"})
    => BrushesAsWritten

\* { } on one line, then a property line and a brush: the property is
\* missing and there is one Brush for the two sub-blocks
C17_Witness ==
    /\ txPc = "ParseEntity"
    /\ txIn.kind = "brushes"
    /\ Len(txIn.items) = 3
    /\ txIn.items[1] = LayoutItem("one", << >>)
    /\ txIn.items[2].t = "prop"
    /\ txIn.items[3] = LayoutItem("lines", TwoPlanes)
    /\ txOut.entity.properties = {}
    /\ Len(txOut.entity.brushes) = 1

\* the warnings of a log
WarningsIn(log) == Cardinality({ k \in 1..Len(log) : log[k].level = "WARNING" })

\* the malformed records of an entity block: the lines with a key only and
\* the plane lines that are cut short
KeyOnlyLines == { k \in 1..Len(txIn.items) : txIn.items[k].t = "key" }

CutPlaneLines ==
    { k \in 1..Len(txIn.items) :
        txIn.items[k].t = "brush" /\ txIn.items[k].cut < PlaneLineLen }

\* the property lines and the brush sub-blocks of the block are in the
\* entity, whatever malformed record comes before them
OthersParsed ==
    /\ txOut.status = "ok"
    /\ \A k \in 1..Len(txIn.items) :
          (txIn.items[k].t = "prop" /\ txIn.items[k].key # CLASSNAME)
          => \E p \in txOut.entity.properties : p[1] = txIn.items[k].key
    /\ Len(txOut.entity.brushes) = Len(ItemsOf(txIn.items, "brush"))

\* C18: every malformed record that is dropped is logged: a property line
\* with a key only and a rejected plane line each cause at least one
\* warning, so does a file with unbalanced braces, and the records after
\* them are still parsed.
C18_MalformedWarned ==
    /\ (txPc = "ParseEntity" /\ txIn.kind = "entity")
       => /\ WarningsIn(txOut.log) >= Cardinality(KeyOnlyLines \cup CutPlaneLines)
          /\ OthersParsed
    /\ (txPc = "LoadFromFile" /\ ~Balanced(txIn.text))
       => WarningsIn(txOut.log) >= 1

\* what holds: a rejected plane line is logged once, and the records after
\* every malformed record are parsed
RejectedPlaneWarned ==
    (txPc = "ParseEntity" /\ txIn.kind = "entity")
    => /\ WarningsIn(txOut.log) = Cardinality(CutPlaneLines)
       /\ OthersParsed

\* a line with a key only, then a property line: the property is stored
\* and nothing is logged
C18_Witness ==
    /\ txPc = "ParseEntity"
    /\ txIn.kind = "entity"
    /\ txIn.items = << KeyItem(<< "k" >>), PropItem(<< "k" >>, << "a" >>) >>
    /\ txOut.entity.properties = { << << "k" >>, << "a" >> >> }
    /\ txOut.log = << >>

\* a numeral: a sign or none, then digits and nothing else
IsNumeral(str) ==
    LET digits == IF str # << >> /\ str[1] \in {"-", "+"} THEN Tail(str) ELSE str
    IN  /\ digits # << >>
        /\ \A i \in 1..Len(digits) : IsDigit(digits[i])

RECURSIVE Pow10(_)
Pow10(n) == IF n = 0 THEN 1 ELSE 10 * Pow10(n - 1)

\* the number a numeral denotes: the sum of its digits by their place
NumeralValue(str) ==
    LET digits == IF str[1] \in {"-", "+"} THEN Tail(str) ELSE str
        RECURSIVE Sum(_)
        Sum(i) == IF i > Len(digits) THEN 0
                  ELSE DigitValue(digits[i]) * Pow10(Len(digits) - i) + Sum(i + 1)
    IN  IF str[1] = "-" THEN -Sum(1) ELSE Sum(1)

\* the first n numbers that a text starts with: whitespace, then the
\* longest numeral there, again and again until no numeral is there
RECURSIVE NumbersFrom(_, _, _)
NumbersFrom(str, p, n) ==
    IF n = 0 THEN << >>
    ELSE LET start == FirstOf({ i \in p..Len(str) : ~IsWhitespace(str[i]) }, Len(str) + 1)
             first == IF start <= Len(str) /\ str[start] \in {"-", "+"}
                      THEN start + 1 ELSE start
             last  == FirstOf({ i \in first..Len(str) : ~IsDigit(str[i]) }, Len(str) + 1) - 1
         IN  IF last < first THEN << >>
             ELSE << NumeralValue(SubSeq(str, start, last)) >>
                  \o NumbersFrom(str, last + 1, n - 1)

Present(key) == \E p \in txIn.entity.properties : p[1] = key

ThreeNumbers == Len(NumbersFrom(txIn.text, 1, 3)) = 3

\* GetString, GetVector3 and GetOrigin: the text of the key if it is there,
\* the three numbers the text starts with if it has three, else the default
TextAndVector ==
    /\ txPc = "GetString"
       => txOut = IF Present(KEY) THEN txIn.text ELSE DefaultString
    /\ txPc = "GetVector3"
       => txOut = IF Present(KEY) /\ ThreeNumbers
                  THEN NumbersFrom(txIn.text, 1, 3) ELSE DefaultVector
    /\ txPc = "GetOrigin"
       => txOut = IF Present(ORIGIN) /\ ThreeNumbers
                  THEN NumbersFrom(txIn.text, 1, 3) ELSE Zero3

\* C19 as stated: GetInt and GetFloat return the number if the key is there
\* and its text is a number, else the default; GetString the text or the
\* default; GetVector3 and GetOrigin the vector if the text has three
\* numbers, else the default.
C19_Original ==
    /\ txPc \in {"GetInt", "GetFloat"}
       => txOut = IF Present(KEY) /\ IsNumeral(txIn.text)
                  THEN NumeralValue(txIn.text) ELSE DefaultNumber
    /\ TextAndVector

\* C19: GetInt and GetFloat return the number that the text of the key
\* starts with, after whitespace and whatever follows it, and the default if
\* the key is absent or its text starts with no number; GetString returns
\* the text or the default; GetVector3 and GetOrigin the three numbers the
\* text starts with, else the default.  No call fails.
C19_LeadingNumber ==
    /\ txPc \in {"GetInt", "GetFloat"}
       => txOut = IF Present(KEY) /\ NumbersFrom(txIn.text, 1, 1) # << >>
                  THEN NumbersFrom(txIn.text, 1, 1)[1] ELSE DefaultNumber
    /\ TextAndVector

\* a number with a letter after it is read as the number
C19_Witness ==
    /\ txPc = "GetInt"
    /\ txIn.text = << "-", "1", "1", "q" >>
    /\ Present(KEY)
    /\ ~IsNumeral(txIn.text)
    /\ txOut = -11

(***************************************************************************)
(* The loops of the parser, checked under SpecScan                         *)
(***************************************************************************)
\* every read of the loops is inside the text: content[i], the substr of a
\* closed block, the line the inner loop takes
ScanInBounds ==
    /\ txPc = "SplitIntoBlocks.for"
       => /\ txOut.i \in 1..(Len(txIn.text) + 1)
          /\ \A k \in 1..Len(txOut.read) : txOut.read[k] \in 1..Len(txIn.text)
          /\ (txOut.i <= Len(txIn.text) /\ txIn.text[txOut.i] = "}"
              /\ txOut.st.depth = 1)
             => txOut.st.blockStart \in 1..txOut.i
    /\ txPc \in {"ParseEntity.while", "ParseEntity.scan"}
       => /\ txOut.i \in 1..(Len(txOut.lines) + 1)
          /\ txPc = "ParseEntity.scan"
             => txOut.scan.next \in (txOut.i + 1)..(Len(txOut.lines) + 1)

\* what the loops have done when they end: SplitIntoBlocks has read each
\* character once, in order, and both return what the function returns
ScanComplete ==
    /\ txPc = "SplitIntoBlocks.done"
       => /\ txOut.read = [k \in 1..Len(txIn.text) |-> k]
          /\ txOut.st.blocks = SplitIntoBlocks(txIn.text, "{", "}")
    /\ txPc = "ParseEntity.done"
       => txOut.st = [ParseEntity(txIn.text, NoUb) EXCEPT !.next = txOut.st.next]

ScanFinished == txPc \in {"SplitIntoBlocks.done", "ParseEntity.done"}

\* the inner loop ends with one more Brush, closed or not
ScanEndsInBrush ==
    ScanEnd => Len(txOut'.st.entity.brushes) = Len(txOut.st.entity.brushes) + 1

\* C13: parsing terminates and never reads past the end of its input:
\* SplitIntoBlocks reads each character once; the nested-brace scan of
\* ParseEntity ends when the counter is back at zero or the lines are
\* exhausted, and yields a Brush in both cases.
C13_ParsingTerminates ==
    /\ [](ScanInBounds /\ ScanComplete)
    /\ [][ScanEndsInBrush]_vars
    /\ <>ScanFinished

\* a brush block that is never closed: its plane line is in the Brush
C13_Witness ==
    /\ txPc = "ParseEntity.done"
    /\ txIn.text = << "{", NL, "(" >>
    /\ Len(txOut.st.entity.brushes) = 1
    /\ Len(txOut.st.entity.brushes[1].planes) = 1

(***************************************************************************)
(* Lists of brushes, checked under SpecList                                *)
(***************************************************************************)
\* the mesh of each brush of the list, converted on its own
MeshesAlone ==
    [i \in 1..Len(clBrushes) |-> ConvertBrushToMesh(clBrushes[i]).mesh]

\* the brushes that have a mesh, by position
WithMesh(alone) == { i \in DOMAIN alone : alone[i].vertices # << >> }

\* the place in the returned list of the mesh of brush i
PlaceOf(alone, i) == Cardinality({ j \in WithMesh(alone) : j <= i })

\* the faces of a mesh: the planes of its triangles
NormalsOf(mesh) == { mesh.vertices[k].normal : k \in 1..Len(mesh.vertices) }

SameMesh(listed, alone) ==
    /\ listed = alone
    /\ Len(listed.vertices) = Len(alone.vertices)
    /\ Len(listed.indices) \div 3 = Len(alone.indices) \div 3
    /\ NormalsOf(listed) = NormalsOf(alone)

\* the returned list holds, in order, the meshes of the brushes as they
\* are when converted alone
ListedAsAlone(alone) ==
    /\ Len(clMeshes) = Cardinality(WithMesh(alone))
    /\ \A i \in WithMesh(alone) : SameMesh(clMeshes[PlaceOf(alone, i)], alone[i])
    /\ \A i, j \in WithMesh(alone) :
          clBrushes[i] = clBrushes[j]
          => clMeshes[PlaceOf(alone, i)] = clMeshes[PlaceOf(alone, j)]

HasVertices(mesh) == mesh.vertices # << >>

\* the meshes of the render objects of the World, in order
GeometryMeshes == [k \in 1..Len(wLevelGeometry) |-> wLevelGeometry[k].mesh]

\* C21 as stated: ConvertBrushesToMeshes returns one mesh per brush, the
\* i-th being the mesh of brush i, and World::LoadMap holds one render
\* object per worldspawn brush, in brush order.
C21_OnePerBrush(alone) ==
    /\ clPc = "done" => clMeshes = alone
    /\ ldResult = "true" => GeometryMeshes = alone

C21_Original == C21_OnePerBrush(MeshesAlone)

C21_OnePerMesh(alone) ==
    /\ clPc = "done" => clMeshes = SelectSeq(alone, HasVertices)
    /\ ldResult = "true" => GeometryMeshes = SelectSeq(alone, HasVertices)

\* C21: ConvertBrushesToMeshes returns one mesh per brush that has a mesh
\* with vertices, in brush order, and none for the other brushes; and
\* World::LoadMap holds one render object per such worldspawn brush, in
\* brush order.
C21_OnePerBrushWithMesh == C21_OnePerMesh(MeshesAlone)

\* a brush of three planes between two boxes: two meshes, two render objects
C21_Witness ==
    /\ clPc = "done"
    /\ ldResult = "true"
    /\ Len(clBrushes) = 3
    /\ clBrushes[2] = [planes |-> SubSeq(BoxPlanes(Near, Far), 1, 3)]
    /\ Len(clMeshes) = 2
    /\ Len(wLevelGeometry) = 2
    /\ wLevelGeometry[2].mesh = clMeshes[2]

\* the sign of dot(cross(b - a, c - a), normal) for the points a, b, c (the
\* denominators are positive)
TriangleSide(a, b, c, normal) ==
    LET na == Scale3(b.w * c.w, Num3(a))
        nb == Scale3(a.w * c.w, Num3(b))
        nc == Scale3(a.w * b.w, Num3(c))
    IN  Dot3(Cross3(Sub3(nb, na), Sub3(nc, na)), normal)

\* the triangles of a mesh: its indices three by three
TrianglesOf(mesh) ==
    [t \in 1..(Len(mesh.indices) \div 3) |->
        [k \in 1..3 |-> mesh.vertices[mesh.indices[3 * (t - 1) + k] + 1]]]

\* the directed edges of the polygon of a face: each vertex to the next, the
\* last to the first
EdgesOf(face) ==
    { << face[j].position, face[(j % Len(face)) + 1].position >> :
        j \in 1..Len(face) }

FacesWith(faces, edge) == { f \in 1..Len(faces) : edge \in EdgesOf(faces[f]) }

\* every directed edge is in one face only, and its reverse in one other face
ClosedSurface(faces) ==
    \A i \in 1..Len(faces) : \A e \in EdgesOf(faces[i]) :
        /\ FacesWith(faces, e) = {i}
        /\ Cardinality(FacesWith(faces, << e[2], e[1] >>) \ {i}) = 1
        /\ i \notin FacesWith(faces, << e[2], e[1] >>)

\* points of the quarter grid around the brushes
InteriorProbes ==
    { [nan |-> FALSE, x |-> x, y |-> y, z |-> z, w |-> 4] :
        x, y, z \in (-4 * MaxCoord - 1)..(4 * MaxCoord + 5) }

\* some point is strictly inside every plane
HasInterior(brush) ==
    \E p \in InteriorProbes :
        \A i \in 1..Len(brush.planes) :
            ~brush.planes[i].nan /\ PlaneDist(brush.planes[i], p) < 0

\* a box with a corner or a side cut off by a slanted plane, and the
\* solids of three axial planes and a slanted one
WedgeBrushes ==
    { b \in ExtendedBrushes :
        \E i \in 1..7 : \E k \in (-3 * MaxCoord)..(3 * MaxCoord + 1) :
            b.planes[i] \in {DiagPlane(k), SlopePlane(k)} }
    \cup TetraBrushes

\* the boxes and wedges that are solids: at least 4 planes, bounded, with
\* an interior
WellFormed(brush) ==
    /\ brush \in BoxBrushes \cup WedgeBrushes
    /\ Len(brush.planes) >= MinPlanes
    /\ HasInterior(brush)

Half == 65536

Uint(n) == [hi |-> n \div Half, lo |-> n % Half]

\* u - 1 in unsigned int: 0 - 1 is the largest value
UintPred(u) ==
    IF u.lo > 0 THEN [u EXCEPT !.lo = @ - 1]
    ELSE IF u.hi > 0 THEN [hi |-> u.hi - 1, lo |-> Half - 1]
    ELSE [hi |-> Half - 1, lo |-> Half - 1]

UintLess(a, b) == a.hi < b.hi \/ (a.hi = b.hi /\ a.lo < b.lo)

\* the largest vertexCount handed to TriangulateFace; the model lists the
\* indices of no more rounds than this
MaxFaceVertices == 6

MaxStartIndex == 3

\* the largest `subdivisions` handed to GenerateSphere
MaxSubdivisions == 1

\* the largest width and depth handed to GeneratePlane
MaxExtent == 2

\* the six faces of GenerateCube, in the order they are pushed: the normal
\* and the four corners, in halves of a unit
CubeFaces ==
    << [normal |-> << 0, 0, 1 >>,
        corners |-> << <<-1, -1, 1>>, <<1, -1, 1>>, <<1, 1, 1>>, <<-1, 1, 1>> >>],
       [normal |-> << 0, 0, -1 >>,
        corners |-> << <<1, -1, -1>>, <<-1, -1, -1>>, <<-1, 1, -1>>, <<1, 1, -1>> >>],
       [normal |-> << 1, 0, 0 >>,
        corners |-> << <<1, -1, 1>>, <<1, -1, -1>>, <<1, 1, -1>>, <<1, 1, 1>> >>],
       [normal |-> << -1, 0, 0 >>,
        corners |-> << <<-1, -1, -1>>, <<-1, -1, 1>>, <<-1, 1, 1>>, <<-1, 1, -1>> >>],
       [normal |-> << 0, 1, 0 >>,
        corners |-> << <<-1, 1, 1>>, <<1, 1, 1>>, <<1, 1, -1>>, <<-1, 1, -1>> >>],
       [normal |-> << 0, -1, 0 >>,
        corners |-> << <<-1, -1, -1>>, <<1, -1, -1>>, <<1, -1, 1>>, <<-1, -1, 1>> >>] >>

\* the texture coordinates of the four corners of a quad
QuadUV == << << 0, 0 >>, << 1, 0 >>, << 1, 1 >>, << 0, 1 >> >>

\* a mutant: the second triangle of a quad runs one past its last corner
QuadIndices_past(base) == << base, base + 1, base + 2, base, base + 2, base + 4 >>

\* base + 0, 1, 2, base + 0, 2, 3
QuadIndices(base) == << base, base + 1, base + 2, base, base + 2, base + 3 >>

\* Mesh::GenerateCube: 24 vertices (positions in halves), 36 indices
GenerateCube ==
    [vertices |-> [n \in 1..24 |->
                     [position |-> CubeFaces[((n - 1) \div 4) + 1].corners[((n - 1) % 4) + 1],
                      normal |-> CubeFaces[((n - 1) \div 4) + 1].normal,
                      texCoord |-> QuadUV[((n - 1) % 4) + 1]]],
     indices |-> [n \in 1..36 |-> QuadIndices(4 * ((n - 1) \div 6))[((n - 1) % 6) + 1]]]

\* the six indices of the cell (ring, segment) of the sphere
SphereCell(ring, segment, segments) ==
    LET current == ring * (segments + 1) + segment
        next    == current + segments + 1
    IN  << current, next, current + 1, current + 1, next, next + 1 >>

\* Mesh::GenerateSphere(subdivisions).  A vertex is named by its ring and
\* segment, from which the code computes its position (radius 0.5, angles
\* pi * ring / rings and 2 pi * segment / segments), normal and texture
\* coordinates.
GenerateSphere(subdivisions) ==
    LET segments == 16 * (subdivisions + 1)
        rings    == 8 * (subdivisions + 1)
    IN  [vertices |-> [n \in 1..((rings + 1) * (segments + 1)) |->
                         [ring |-> (n - 1) \div (segments + 1),
                          segment |-> (n - 1) % (segments + 1),
                          texCoord |-> << << (n - 1) % (segments + 1), segments >>,
                                          << (n - 1) \div (segments + 1), rings >> >>]],
         indices |-> [n \in 1..(6 * rings * segments) |->
                        SphereCell((n - 1) \div (6 * segments),
                                   ((n - 1) \div 6) % segments,
                                   segments)[((n - 1) % 6) + 1]]]

\* Mesh::GeneratePlane(width, depth): positions in halves
GeneratePlane(width, depth) ==
    [vertices |-> << [position |-> << -width, 0, depth >>, normal |-> << 0, 1, 0 >>,
                      texCoord |-> << 0, 0 >>],
                     [position |-> << width, 0, depth >>, normal |-> << 0, 1, 0 >>,
                      texCoord |-> << width, 0 >>],
                     [position |-> << width, 0, -depth >>, normal |-> << 0, 1, 0 >>,
                      texCoord |-> << width, depth >>],
                     [position |-> << -width, 0, -depth >>, normal |-> << 0, 1, 0 >>,
                      texCoord |-> << 0, depth >>] >>,
     indices |-> QuadIndices(0)]

\* the rounds of `for (unsigned int i = 1; i < vertexCount - 1; i++)`, an
\* unsigned int: vertexCount - 1 is computed in unsigned int
FanRounds(vertexCount) ==
    LET limit == UintPred(Uint(vertexCount))
    IN  IF UintLess(Uint(1), limit) THEN UintPred(limit) ELSE Uint(0)

\* the three indices pushed in round i (no sum of the model leaves the
\* range of unsigned int)
FanRound(startIndex, i) == << startIndex, startIndex + i, startIndex + i + 1 >>

\* BrushConverter::TriangulateFace(startIndex, vertexCount): how many rounds
\* the loop makes and the indices of the first MaxFaceVertices rounds.  A
\* list of more rounds needs room for it: without room push_back throws
\* std::bad_alloc.
TriangulateFace(startIndex, vertexCount, room) ==
    LET rounds == FanRounds(vertexCount)
        long   == UintLess(Uint(MaxFaceVertices), rounds)
        listed == IF long THEN MaxFaceVertices ELSE rounds.lo
    IN  IF long /\ ~room
        THEN [status |-> "throw", rounds |-> Uint(0), indices |-> << >>]
        ELSE [status |-> "ok", rounds |-> rounds,
              indices |-> [n \in 1..(3 * listed) |->
                             FanRound(startIndex, ((n - 1) \div 3) + 1)[((n - 1) % 3) + 1]]]

MeshInputs ==
    { [kind |-> "cube", text |-> << >>] }
    \cup { [kind |-> "sphere", text |-> << >>, subdivisions |-> s] :
             s \in 0..MaxSubdivisions }
    \cup { [kind |-> "plane", text |-> << >>, width |-> w, depth |-> d] :
             w, d \in 0..MaxExtent }
    \cup { [kind |-> "fan", text |-> << >>, startIndex |-> i, vertexCount |-> k] :
             i \in 0..MaxStartIndex, k \in 0..MaxFaceVertices }
    \cup { [kind |-> "brush", text |-> << >>, brush |-> b] : b \in ConvInputs }

InitMesh ==
    /\ CamIdle
    /\ InIdle
    /\ txIn \in MeshInputs
    /\ txOut = << >>
    /\ txPc = "ready"
    /\ CvIdle
    /\ LdIdle
    /\ ClIdle

\* Mesh::GenerateCube()
RunGenerateCube ==
    /\ txIn.kind = "cube"
    /\ txOut' = GenerateCube
    /\ Called("GenerateCube")

\* Mesh::GenerateSphere(subdivisions)
RunGenerateSphere ==
    /\ txIn.kind = "sphere"
    /\ txOut' = GenerateSphere(txIn.subdivisions)
    /\ Called("GenerateSphere")

\* Mesh::GeneratePlane(width, depth)
RunGeneratePlane ==
    /\ txIn.kind = "plane"
    /\ txOut' = GeneratePlane(txIn.width, txIn.depth)
    /\ Called("GeneratePlane")

\* BrushConverter::TriangulateFace(startIndex, vertexCount)
RunTriangulateFace ==
    /\ txIn.kind = "fan"
    /\ \E room \in BOOLEAN :
          txOut' = TriangulateFace(txIn.startIndex, txIn.vertexCount, room)
    /\ Called("TriangulateFace")

\* BrushConverter::ConvertBrushToMesh(brush)
RunConvertBrushToMesh ==
    /\ txIn.kind = "brush"
    /\ txOut' = ConvertBrushToMesh(txIn.brush)
    /\ Called("ConvertBrushToMesh")

NextMesh ==
    \/ RunGenerateCube
    \/ RunGenerateSphere
    \/ RunGeneratePlane
    \/ RunTriangulateFace
    \/ RunConvertBrushToMesh

SpecMesh == InitMesh /\ [][NextMesh]_vars

\* the triangles a face of k vertices is to contribute
FanSize(k) == IF k >= 3 THEN k - 2 ELSE 0

\* where the triangles of face f begin in the vertex list of the mesh
FanStart(faces, f) ==
    LET RECURSIVE Before(_)
        Before(g) == IF g = 0 THEN 0 ELSE 3 * FanSize(Len(faces[g])) + Before(g - 1)
    IN  Before(f - 1)

\* the mesh holds, face after face, the triangles (0, j, j + 1) of each face
InlineFans(faces, mesh) ==
    /\ Len(mesh.vertices) = FanStart(faces, Len(faces) + 1)
    /\ \A f \in 1..Len(faces) : \A j \in 1..FanSize(Len(faces[f])) :
          LET at == FanStart(faces, f) + 3 * (j - 1)
          IN  /\ mesh.vertices[at + 1] = faces[f][1]
              /\ mesh.vertices[at + 2] = faces[f][j + 1]
              /\ mesh.vertices[at + 3] = faces[f][j + 2]

\* TriangulateFace returned the k - 2 triangles (start, start + j, start + j + 1)
IndexFan(startIndex, vertexCount, out) ==
    /\ out.status = "ok"
    /\ out.rounds = Uint(FanSize(vertexCount))
    /\ Len(out.indices) = 3 * FanSize(vertexCount)
    /\ \A j \in 1..FanSize(vertexCount) :
          /\ out.indices[3 * j - 2] = startIndex
          /\ out.indices[3 * j - 1] = startIndex + j
          /\ out.indices[3 * j] = startIndex + j + 1

\* C23: a face of k vertices contributes k - 2 triangles when k >= 3 and
\* none when k < 3, the j-th being the face vertices (0, j, j + 1), so a
\* mesh has the sum over its faces of k_f - 2 triangles; this holds for the
\* inline fan of BuildFaces and for TriangulateFace(startIndex, k) for
\* every unsigned k, 0, 1 and 2 included.
C23_FanTriangulation ==
    /\ txPc = "ConvertBrushToMesh" => InlineFans(txOut.faces, txOut.mesh)
    /\ txPc = "TriangulateFace" =>
          IndexFan(txIn.startIndex, txIn.vertexCount, txOut)

\* TriangulateFace was called with no vertex at all and returned
C23_Witness ==
    /\ txPc = "TriangulateFace"
    /\ txIn.vertexCount = 0
    /\ txOut.status = "ok"
    /\ txOut.rounds = [hi |-> Half - 1, lo |-> Half - 2]
    /\ Len(txOut.indices) = 3 * MaxFaceVertices

\* the index list is made of triangles and every index names a vertex
ValidIndices(mesh) ==
    /\ Len(mesh.indices) % 3 = 0
    /\ \A n \in 1..Len(mesh.indices) :
          mesh.indices[n] >= 0 /\ mesh.indices[n] < Len(mesh.vertices)

\* C25: every Mesh built by GenerateCube, GenerateSphere(s) for s >= 0,
\* GeneratePlane and ConvertBrushToMesh has an index list whose length is a
\* multiple of 3 and whose every index is smaller than the number of
\* vertices of the mesh.
C25_IndicesInRange ==
    /\ txPc \in {"GenerateCube", "GenerateSphere", "GeneratePlane"} =>
          ValidIndices(txOut)
    /\ txPc = "ConvertBrushToMesh" => ValidIndices(txOut.mesh)

\* the sphere of no subdivision: 9 rings of 17 vertices, 8 * 16 cells; its
\* last index is its last vertex
C25_Witness ==
    /\ txPc = "GenerateSphere"
    /\ txIn.subdivisions = 0
    /\ Len(txOut.vertices) = 153
    /\ Len(txOut.indices) = 768
    /\ txOut.indices[768] = 152

(***************************************************************************)
(* The Camera under any sequence of calls                                  *)
(***************************************************************************)
InitCam ==
    /\ camera = NewCamera
    /\ CvIdle
    /\ LdIdle
    /\ TxIdle
    /\ ClIdle
    /\ InIdle

CamUnchanged == UNCHANGED <<cvVars, ldVars, txVars, clVars, inVars>>

\* camera.Orbit(deltaYaw, deltaPitch); the model follows the yaw up to MaxYaw
CameraOrbit(deltaYaw, deltaPitch) ==
    /\ LET yaw == FAdd(camera.yaw, deltaYaw)
       IN  yaw.v \in -MaxYaw..MaxYaw
    /\ camera' = Orbit(camera, deltaYaw, deltaPitch)
    /\ CamUnchanged

\* camera.SetRotation(newYaw, newPitch)
CameraSetRotation(newYaw, newPitch) ==
    /\ camera' = SetRotation(camera, newYaw, newPitch)
    /\ CamUnchanged

\* camera.Zoom(delta)
CameraZoom(delta) ==
    /\ camera' = Zoom(camera, delta)
    /\ CamUnchanged

\* camera.SetDistance(distValue)
CameraSetDistance(distValue) ==
    /\ camera' = SetDistance(camera, distValue)
    /\ CamUnchanged

\* camera.SetTarget(newTarget)
CameraSetTarget(newTarget) ==
    /\ camera' = SetTarget(camera, newTarget)
    /\ CamUnchanged

\* camera.FollowTarget(targetPos, deltaTime)
CameraFollowTarget(targetPos, deltaTime) ==
    /\ camera' = FollowTarget(camera, targetPos, deltaTime)
    /\ CamUnchanged

NextCam ==
    \/ \E deltaYaw, deltaPitch \in FloatArgs : CameraOrbit(deltaYaw, deltaPitch)
    \/ \E newYaw, newPitch \in FloatArgs : CameraSetRotation(newYaw, newPitch)
    \/ \E delta \in FloatArgs : CameraZoom(delta)
    \/ \E distValue \in FloatArgs : CameraSetDistance(distValue)
    \/ \E newTarget \in TargetArgs : CameraSetTarget(newTarget)
    \/ \E targetPos \in TargetArgs, deltaTime \in {0, LongTime} :
          CameraFollowTarget(targetPos, deltaTime)

SpecCam == InitCam /\ [][NextCam]_vars

\* the pitch is a number of [-89, 89]
PitchInRange ==
    /\ ~camera.pitch.nan
    /\ camera.pitch.inf = 0
    /\ camera.pitch.v >= -MaxPitch
    /\ camera.pitch.v <= MaxPitch

\* every Orbit leaves yaw + deltaYaw in yaw
OrbitAddsYaw ==
    \A deltaYaw, deltaPitch \in FloatArgs :
        CameraOrbit(deltaYaw, deltaPitch) => camera'.yaw = FAdd(camera.yaw, deltaYaw)

\* C24: the pitch of the Camera stays within [-89, 89] degrees in every
\* state reachable from construction (pitch 20) by any sequence of Orbit,
\* SetRotation, Zoom, SetDistance, SetTarget and FollowTarget calls with any
\* arguments, and Orbit adds deltaYaw to yaw without clamping it.
C24_PitchClamped == [](PitchInRange) /\ [][OrbitAddsYaw]_vars

\* Orbit was called with a pitch step that is not a number
C24_Witness ==
    /\ camera.pitch.nan
    /\ camera.yaw = Num(QuarterTurn)
    /\ camera.position.pitch = NaN

(***************************************************************************)
(* The Input in the frames of the main loop: Prepare, ProcessEvent for     *)
(* each event polled, Update, then the queries                             *)
(***************************************************************************)
InitInput ==
    /\ input \in { NewInput(g) : g \in {NoGamepad, 0} }
    /\ sdl = [key |-> FALSE, mouse |-> FALSE]
    /\ loop = [IdleLoop EXCEPT !.pc = "top"]
    /\ CvIdle
    /\ LdIdle
    /\ TxIdle
    /\ ClIdle
    /\ CamIdle

InputUnchanged == UNCHANGED <<cvVars, ldVars, txVars, clVars, camVars>>

\* input.Prepare(), before the event loop
FramePrepare ==
    /\ loop.pc = "top"
    /\ input' = Prepare(input, sdl)
    /\ loop' = [loop EXCEPT !.pc = "events", !.events = 0, !.down = {},
                            !.held = loop.pressed, !.just = NoAnswers]
    /\ UNCHANGED sdl
    /\ InputUnchanged

\* a button-down event for a button that was not pressed in the frame
\* before, processed while a gamepad is connected
PutDown(event) ==
    /\ event.type = "CONTROLLERBUTTONDOWN"
    /\ input.gamepad # NoGamepad
    /\ event.button \notin loop.held

\* SDL_PollEvent(&e) returned an event: input.ProcessEvent(e)
PollEvent(event, opened) ==
    /\ loop.pc = "events"
    /\ loop.events < MaxEvents
    /\ sdl' = Pumped(sdl, event)
    /\ input' = ProcessEvent(input, event, opened)
    /\ loop' = [loop EXCEPT !.events = @ + 1,
                            !.down = IF PutDown(event) THEN @ \cup {event.button}
                                     ELSE @]
    /\ InputUnchanged

\* input.Update(), after the event loop
FrameUpdate ==
    /\ loop.pc = "events"
    /\ input' = InputUpdate(input, sdl)
    /\ loop' = [loop EXCEPT !.pc = "queries"]
    /\ UNCHANGED sdl
    /\ InputUnchanged

\* the queries of the frame: IsButtonPressed and IsButtonJustPressed, const
FrameQueries ==
    /\ loop.pc = "queries"
    /\ loop' = [loop EXCEPT
                  !.pc = "top",
                  !.pressed = { b \in Buttons : IsButtonPressed(input, b) },
                  !.just = [b \in Buttons |->
                              IF IsButtonJustPressed(input, b) THEN "true"
                              ELSE "false"]]
    /\ UNCHANGED <<input, sdl>>
    /\ InputUnchanged

NextInput ==
    \/ FramePrepare
    \/ \E event \in Events, opened \in BOOLEAN : PollEvent(event, opened)
    \/ FrameUpdate
    \/ FrameQueries

SpecInput == InitInput /\ [][NextInput]_vars

\* the queries of a frame were made
Queried == loop.pc = "top" /\ loop.just # NoAnswers

\* C26: under the frame protocol (Prepare, ProcessEvent for each event,
\* Update, then the queries), in the frame in which a button-down event for
\* button b is processed while a gamepad is connected and b was not pressed
\* in the frame before, IsButtonJustPressed(b) returns true, and in every
\* later frame in which b stays pressed it returns false.
C26_JustPressedOnce ==
    [](Queried =>
         \A b \in Buttons :
            /\ (b \in loop.down /\ b \in loop.pressed) => loop.just[b] = "true"
            /\ (b \in loop.held /\ b \in loop.pressed) => loop.just[b] = "false")

\* the first frame of a connected gamepad, in which the button was put
\* down: it is pressed, and IsButtonJustPressed was asked
C26_Witness ==
    /\ Queried
    /\ "a" \in loop.down
    /\ loop.held = {}
    /\ IsButtonPressed(input, "a")
    /\ loop.just["a"] = "false"

(***************************************************************************)
(* MapLoader::ParsePlane and ComputePlaneEquation on plane lines           *)
(***************************************************************************)
\* the token indexes (0-based) that ParsePlane reads on these tokens: none
\* when the line is rejected, else those of PlaneReads in order, up to the
\* token std::stof throws on or the read past the end that stops the call
TokensRead(tokens, ub) ==
    LET n == Len(tokens)
        Stops(r) ==
            LET idx == PlaneReads[r]
            IN  IF idx >= n THEN ub.kind # "garbage"
                ELSE idx # TextureIndex /\ ~Stof(tokens[idx + 1]).ok
    IN  IF TooFewTokens(tokens) THEN {}
        ELSE { PlaneReads[r] :
                 r \in { k \in 1..Len(PlaneReads) : \A q \in 1..(k - 1) : ~Stops(q) } }

\* the line of a plane through three points
PointsLine(p1, p2, p3) ==
    PlaneText([DefaultPlane EXCEPT !.p1 = p1, !.p2 = p2, !.p3 = p3, !.texture = TEX])

\* the brush of the guide (PHASE2_GUIDE.md, Quake MAP Format): the three
\* points of each of its six lines
GuidePoints ==
    << << << -64, -64, -16 >>, << -64, -63, -16 >>, << -64, -64, -15 >> >>,
       << << -64, -64, -16 >>, << -64, -64, -15 >>, << -63, -64, -16 >> >>,
       << << -64, -64, -16 >>, << -63, -64, -16 >>, << -64, -63, -16 >> >>,
       << << 64, 64, 16 >>, << 64, 65, 16 >>, << 65, 64, 16 >> >>,
       << << 64, 64, 16 >>, << 65, 64, 16 >>, << 64, 64, 17 >> >>,
       << << 64, 64, 16 >>, << 64, 64, 17 >>, << 64, 65, 16 >> >> >>

\* its text: six lines "( x y z ) ( x y z ) ( x y z ) TEX 0 0 0 1 1"
GuideBrush ==
    Joined([i \in 1..6 |-> PointsLine(GuidePoints[i][1], GuidePoints[i][2],
                                      GuidePoints[i][3])], << NL >>)

\* the corners of the solid of the guide, and its centre
GuideCorners ==
    { << x, y, z >> : x \in {-64, 64}, y \in {-64, 64}, z \in {-16, 16} }
    \cup { Zero3 }

\* plane lines cut after their first n tokens, or with one token more
ShortLines ==
    { Joined(SubSeq(PlaneTokens(BoxPlanes(Near, Far)[1]) \o << << "x" >> >>, 1, n),
             << " " >>) : n \in 0..(PlaneLineLen + 1) }

\* the points with every coordinate at an end of the grid
FarPoints == { p \in Corners3 : \A i \in 1..3 : p[i] \in {-MaxCoord, MaxCoord} }

PlaneInputs ==
    { [kind |-> "points", text |-> PointsLine(p1, p2, p3),
       p1 |-> p1, p2 |-> p2, p3 |-> p3] :
          p1 \in Corners3, p2 \in Corners3, p3 \in FarPoints }
    \cup { [kind |-> "short", text |-> line] : line \in ShortLines }
    \cup { [kind |-> "guide", text |-> GuideBrush] }

InitPlane ==
    /\ CamIdle
    /\ InIdle
    /\ txIn \in PlaneInputs
    /\ txOut = << >>
    /\ txPc = "ready"
    /\ CvIdle
    /\ LdIdle
    /\ ClIdle

\* MapLoader::ParsePlane(line): what it returned, the tokens of the line
\* and the indexes it read
RunParsePlane ==
    /\ txIn.kind \in {"points", "short"}
    /\ \E tokens \in { Tokenize(txIn.text) } : \E ub \in UbOutcomes :
          txOut' = [tokens |-> tokens, reads |-> TokensRead(tokens, ub),
                    result |-> PlaneFromTokens(tokens, ub)]
    /\ Called("ParsePlane")

\* MapLoader::ParseBrush(block) on the brush of the guide
RunParseBrush ==
    /\ txIn.kind = "guide"
    /\ txOut' = ParseBrush(txIn.text, NoUb)
    /\ Called("ParseBrush")

NextPlane == RunParsePlane \/ RunParseBrush

SpecPlane == InitPlane /\ [][NextPlane]_vars

NotCollinear(p1, p2, p3) == Cross3(Sub3(p2, p1), Sub3(p3, p1)) # Zero3

\* a and b have the same direction
SameDirection(a, b) == Cross3(a, b) = Zero3 /\ Dot3(a, b) > 0

C28_ReadsInBounds ==
    txPc = "ParsePlane" => \A idx \in txOut.reads : idx < Len(txOut.tokens)

\* a line of 15 tokens was not rejected: the texture name was read at
\* index 15
C28_Witness ==
    /\ txPc = "ParsePlane"
    /\ Len(txOut.tokens) = MinTokens
    /\ TextureIndex \in txOut.reads
    /\ txOut.result.status = "crash"

(***************************************************************************)
(* What a World exposes (World.h)                                          *)
(***************************************************************************)
\* World::GetEntitiesByClass(classname)
GetEntitiesByClass(w, classname) ==
    SelectSeq(w.map.entities, LAMBDA entity : entity.classname = classname)

\* World::GetWorldspawn()
GetWorldspawn(w) == w.worldspawn

\* the class names asked for
ClassNames == { WORLDSPAWN, PLAYERSTART, LIGHT, << >> }

\* C29: a World whose last call was Unload, or a LoadMap that returned
\* false, exposes nothing of a map loaded before: levelGeometry,
\* textureCache and map.entities are empty, GetEntitiesByClass returns
\* nothing and GetWorldspawn() returns an entity with empty classname, no
\* properties and no brushes.
C29_NothingLeft ==
    ldResult \in {"unloaded", "false"} =>
        /\ wLevelGeometry = << >>
        /\ wTextureCache = {}
        /\ wMap.entities = << >>
        /\ \A classname \in ClassNames :
              GetEntitiesByClass(TheWorld, classname) = << >>
        /\ GetWorldspawn(TheWorld) = DefaultEntity

\* a map was loaded and LoadMap of a file that cannot be opened returned
\* false: GetWorldspawn() still returns the worldspawn of the map before
C29_Witness ==
    /\ ldResult = "false"
    /\ ldPath = "missing.map"
    /\ wMap.entities = << >>
    /\ GetWorldspawn(TheWorld).classname = WORLDSPAWN
    /\ GetWorldspawn(TheWorld).brushes # << >>

\* the brushes that LoadMap builds a render object from
Built(brushes) ==
    SelectSeq(brushes, LAMBDA brush : ConvertBrushToMesh(brush).mesh.vertices # << >>)

\* the entries of the cache under a texture name: what a Texture* taken
\* from textureCache[name] points to while the entry is in the std::map
EntriesOf(cache, textureName) == { t \in cache : t[1] = textureName }

\* the texture loads of the last LoadMap that failed (each is logged)
FailedLoads(log) ==
    Cardinality({ k \in 1..Len(log) : log[k] = Warning("Failed to load texture") })

\* C30: in every state each render object points to the entry the texture
\* cache holds under the texture name of the first plane of the brush it
\* was built from (so no render object outlives its cache entry), the
\* cache holds one entry per name, and a LoadMap loads each distinct
\* texture name at most once: with texture files that cannot be loaded it
\* logs one failed load per entry of the cache.
C30_TexturesCached ==
    /\ \A i \in 1..Len(wLevelGeometry) :
          Cardinality(EntriesOf(wTextureCache, wLevelGeometry[i].texture)) = 1
    /\ wLevelGeometry # << >> =>
          \E built \in { Built(wWorldspawn.brushes) } :
             /\ Len(wLevelGeometry) = Len(built)
             /\ \A i \in 1..Len(built) :
                   wLevelGeometry[i].texture = built[i].planes[1].texture
    /\ \A t, u \in wTextureCache : t[1] = u[1] => t = u
    /\ ldResult = "true" =>
          FailedLoads(ldLog) = Cardinality({ t \in wTextureCache : t[2].white })

\* three render objects on two textures, none of which could be loaded:
\* the first and the third share the entry of lava, and two loads failed
C30_Witness ==
    /\ ldResult = "true"
    /\ Len(wLevelGeometry) = 3
    /\ wLevelGeometry[1].texture = LAVA
    /\ wLevelGeometry[2].texture = TEX
    /\ wLevelGeometry[3].texture = LAVA
    /\ wTextureCache = { << LAVA, [white |-> TRUE] >>, << TEX, [white |-> TRUE] >> }
    /\ FailedLoads(ldLog) = 2

====
